---- MODULE Spec2Model ----
(***************************************************************************)
(* A model of the snapr snapshot compositor: the builder, the automatic    *)
(* zoom selection, the tile grid and the tile fetch of                     *)
(* overlay_backing_tiles, and the draw loop of snapshot_from_drawables.    *)
(*                                                                         *)
(* Geographic points are records [x |-> latitude, y |-> longitude], the    *)
(* order the projection reads them in.  World coordinates are kept exact,  *)
(* as integers in units of 1/WorldDen of a tile, in place of f64.          *)
(***************************************************************************)
EXTENDS Integers, Sequences, FiniteSets, TLC

VARIABLES
    builder,    \* the SnaprBuilder being configured
    built,      \* what build() returned, None before it is called
    rayon,      \* whether the crate is compiled with the rayon feature
    snapr,      \* the Snapr a snapshot is taken with
    drawables,  \* the drawables handed to snapshot_from_drawables
    pc,         \* the position of the snapshot call
    center,     \* the centroid of the geometries
    zoom,       \* the zoom level of the call
    matrix,     \* coordinate_matrix, the grid cells in iteration order
    pending,    \* positions of matrix not yet handed to a worker or fetched
    collected,  \* fetched tiles waiting to be pasted, in the order collected
    calls,      \* every call made to the tile source, with its answer
    faults,     \* how many answers were not a tile of the configured size
    image,      \* output_image: the tiles pasted so far, in paste order
    drawing,    \* the index of the drawable whose draw is running, or -1
    drawn,      \* the draw calls completed, in order
    pixmap,     \* the overlay: for each cell, the index of the drawable on top
    result,     \* what the snapshot call returned, None while running
    zin,        \* the inputs of a zoom_from_geometries call
    zout,       \* what that call returned, -1 before it
    styles,     \* the styles handed to Style::for_point, for_line, for_polygon
    target,     \* which of the three is called
    taken,      \* how many of the styles reduce has been through
    acc,        \* the accumulator of reduce, None before the first style
    bridge,     \* the thread TokioTileFetcher::fetch_tiles spawns: its position
    tasks,      \* the state of the task spawned for each position of the matrix
    finished,   \* the tasks the JoinSet has yet to hand out, in completion order
    tiles,      \* the Vec the joined tiles are pushed to
    batch,      \* what the future of block_on returned, None before
    ran,        \* the asynchronous work done so far, with the thread it ran on
    gin,        \* the inputs of a tile grid: center, zoom, tile_size, width, height
    gout,       \* the cells of that grid, each with its paste offsets
    pin,        \* the inputs of an epsg_4326_to_pixel call of Snapper
    pout,       \* the pixel it returned, None before the call
    geoms,      \* the geometries drawn, once each on its own, once as a collection
    lenient,    \* whether PathBuilder::finish gives a path for coinciding points
    apart,      \* the run that draws each geometry as a drawable of its own
    wrapped,    \* the run that draws one GeometryCollection of them
    fetched,    \* a get_tile call of Snapper: its arguments and the fetcher's answer
    got         \* what get_tile returned, None before the call

vars == <<builder, built, rayon, snapr, drawables, pc, center, zoom, matrix,
          pending, collected, calls, faults, image, drawing, drawn,
          pixmap, result, zin, zout, styles, target, taken, acc,
          bridge, tasks, finished, tiles, batch, ran, gin, gout, pin, pout,
          geoms, lenient, apart, wrapped, fetched, got>>

\* Option: None and Some(value).
None == [some |-> FALSE]

Some(value) == [some |-> TRUE, value |-> value]

(***************************************************************************)
(* Zoom and the builders                                                   *)
(***************************************************************************)

Automatic(level) == [kind |-> "Automatic", level |-> level]

Constant(level) == [kind |-> "Constant", level |-> level]

DefaultMaxZoom == 17

DefaultZoom == Automatic(DefaultMaxZoom)

DefaultTileSize == 256

DefaultHeight == 600

DefaultWidth == 800

UnwrapOr(option, default) == IF option.some THEN option.value ELSE default

\* The tile sources a builder of each kind accepts.
SyncFetchers == {"Individual", "Batch"}

AsyncFetchers == {"AsyncIndividual", "AsyncBatch"}

FetchersOf(kind) == IF kind = "tokio" THEN AsyncFetchers ELSE SyncFetchers

\* tokio::SnaprBuilder::build wraps the asynchronous source in a
\* TokioTileFetcher and installs it as a batch source.
InstalledFetcher(kind, tile_fetcher) ==
    IF kind = "tokio"
    THEN [shape |-> "Batch", inner |-> tile_fetcher]
    ELSE [shape |-> tile_fetcher, inner |-> "None"]

NewBuilder(kind) ==
    [kind |-> kind, tile_fetcher |-> None, tile_size |-> None,
     height |-> None, width |-> None, zoom |-> None]

BuilderError == [ok |-> FALSE, error |-> "Builder"]

\* A build that also insists on tile_size.
BuildStrict(b) ==
    IF ~b.tile_fetcher.some \/ ~b.tile_size.some
    THEN BuilderError
    ELSE [ok |-> TRUE,
          snapr |-> [tile_fetcher |->
                         InstalledFetcher(b.kind, b.tile_fetcher.value),
                     tile_size |-> b.tile_size.value,
                     height |-> UnwrapOr(b.height, DefaultHeight),
                     width |-> UnwrapOr(b.width, DefaultWidth),
                     zoom |-> UnwrapOr(b.zoom, DefaultZoom)]]

BuildResult(b) ==
    IF ~b.tile_fetcher.some
    THEN BuilderError
    ELSE [ok |-> TRUE,
          snapr |-> [tile_fetcher |->
                         InstalledFetcher(b.kind, b.tile_fetcher.value),
                     tile_size |-> UnwrapOr(b.tile_size, DefaultTileSize),
                     height |-> UnwrapOr(b.height, DefaultHeight),
                     width |-> UnwrapOr(b.width, DefaultWidth),
                     zoom |-> UnwrapOr(b.zoom, DefaultZoom)]]

(***************************************************************************)
(* Projection                                                              *)
(***************************************************************************)

\* World coordinates are integers in units of 1/WorldDen of a tile: the
\* divisor of the longitude term of the projection.
WorldDen == 360

HalfTurn == 180

RECURSIVE Pow2(_)
Pow2(k) == IF k = 0 THEN 1 ELSE 2 * Pow2(k - 1)

\* The latitudes of the model, in thousandths of a degree.
Latitudes == {-85051, -66513, 0, 40980, 66513, 85051, 89991}

Longitudes == {-180, -90, 0, 90, 180}

GeoPoints == {[x |-> lat, y |-> lon] : lat \in Latitudes, lon \in Longitudes}

\* (1 - ln(tan(lat) + 1 / cos(lat)) / PI) / 2 in units of 1/WorldDen, at the
\* latitudes of the model, where it is a multiple of 1/8.
MercatorY(lat) ==
    CASE lat = 0 -> 180
      [] lat = 40980 -> 135
      [] lat = 66513 -> 90
      [] lat = -66513 -> 270
      [] lat = 85051 -> 0
      [] lat = -85051 -> 360
      [] lat = 89991 -> -360

\* point.x is read as the latitude and point.y as the longitude.
epsg_4326_to_epsg_3857(level, point) ==
    LET n == Pow2(level)
    IN  [x |-> n * (((point.y + HalfTurn) * WorldDen) \div 360),
         y |-> n * MercatorY(point.x)]

\* geo::Rect::new orders its two corners per axis.
RectNew(c1, c2) ==
    [min |-> [x |-> IF c1.x < c2.x THEN c1.x ELSE c2.x,
              y |-> IF c1.y < c2.y THEN c1.y ELSE c2.y],
     max |-> [x |-> IF c1.x < c2.x THEN c2.x ELSE c1.x,
              y |-> IF c1.y < c2.y THEN c2.y ELSE c1.y]]

\* Rect::map_coords maps the two corners and builds a new Rect from them.
MapRect(level, bounding_box) ==
    RectNew(epsg_4326_to_epsg_3857(level, bounding_box.min),
            epsg_4326_to_epsg_3857(level, bounding_box.max))

Min(S) == CHOOSE v \in S : \A w \in S : v <= w

Max(S) == CHOOSE v \in S : \A w \in S : v >= w

\* geometries.bounding_rect() of a collection of points, None when empty.
BoundingRect(geometries) ==
    IF geometries = {}
    THEN None
    ELSE Some([min |-> [x |-> Min({g.x : g \in geometries}),
                        y |-> Min({g.y : g \in geometries})],
               max |-> [x |-> Max({g.x : g \in geometries}),
                        y |-> Max({g.y : g \in geometries})]])

\* A centroid whatever the collection holds.
AnyCentroid(geometries) == GeoPoints

\* geometries.centroid() of a collection of points is their mean, which lies
\* in their bounding rectangle: the points of the model that do (the point
\* itself when there is one). Empty when the collection is.
Centroids(geometries) ==
    IF geometries = {}
    THEN {}
    ELSE LET box == BoundingRect(geometries).value
         IN  {p \in GeoPoints : /\ box.min.x <= p.x /\ p.x <= box.max.x
                                /\ box.min.y <= p.y /\ p.y <= box.max.y}

(***************************************************************************)
(* Zoom selection                                                          *)
(***************************************************************************)

\* distance before it is multiplied by tile_size, in units of 1/WorldDen of a
\* tile.
Distance(level, bounding_box) ==
    LET box == MapRect(level, bounding_box)
    IN  [x |-> box.max.x - box.min.x, y |-> box.min.y - box.max.y]

\* span * tile_size > dimension * WorldDen, that is distance > dimension,
\* without the product (span is an integer).
Exceeds(span, tile_size, dimension) ==
    span > (dimension * WorldDen) \div tile_size

\* The test of one level of the loop: the level is skipped.
TooLarge(level, bounding_box, tile_size, width, height) ==
    LET distance == Distance(level, bounding_box)
    IN  \/ Exceeds(distance.x, tile_size, width)
        \/ Exceeds(distance.y, tile_size, height)

RECURSIVE ZoomLoop(_, _, _, _, _)
ZoomLoop(level, bounding_box, tile_size, width, height) ==
    IF level < 0
    THEN 1
    ELSE IF TooLarge(level, bounding_box, tile_size, width, height)
         THEN ZoomLoop(level - 1, bounding_box, tile_size, width, height)
         ELSE level

zoom_from_geometries(bounding_box, max_zoom, tile_size, width, height) ==
    ZoomLoop(max_zoom, bounding_box, tile_size, width, height)

(***************************************************************************)
(* The tile grid                                                           *)
(***************************************************************************)

\* floor and ceil of num / den, for den > 0.
Floor(num, den) == num \div den

Ceil(num, den) == -((-num) \div den)

\* `as i64` of the f64 num / den: toward zero.
Truncate(num, den) == IF num >= 0 THEN num \div den ELSE -((-num) \div den)

\* Rust's %: the remainder has the sign of the dividend.
Rem(a, n) == IF a >= 0 THEN a % n ELSE -((-a) % n)

\* min_x, max_x (or min_y, max_y): c is the center's world coordinate on the
\* axis and dimension the output's width (or height).
GridMin(c, dimension, tile_size) ==
    Floor(2 * tile_size * c - WorldDen * dimension, 2 * tile_size * WorldDen)

\* The upper bound rounded down.
GridMaxFloor(c, dimension, tile_size) ==
    Floor(2 * tile_size * c + WorldDen * dimension, 2 * tile_size * WorldDen)

GridMax(c, dimension, tile_size) ==
    Ceil(2 * tile_size * c + WorldDen * dimension, 2 * tile_size * WorldDen)

\* Every column of the matrix with the first row in place of each row.
CoordinateMatrixFirstRow(min_x, max_x, min_y, max_y) ==
    LET columns == IF max_x > min_x THEN max_x - min_x ELSE 0
        rows == IF max_y > min_y THEN max_y - min_y ELSE 0
    IN  [k \in 1..(columns * rows) |->
            <<min_x + ((k - 1) \div rows), min_y>>]

\* coordinate_matrix: for x in min_x..max_x, for y in min_y..max_y, (x, y).
CoordinateMatrix(min_x, max_x, min_y, max_y) ==
    LET columns == IF max_x > min_x THEN max_x - min_x ELSE 0
        rows == IF max_y > min_y THEN max_y - min_y ELSE 0
    IN  [k \in 1..(columns * rows) |->
            <<min_x + ((k - 1) \div rows), min_y + ((k - 1) % rows)>>]

\* The index handed to fetch_tile, left as it is.
Unwrapped(v, n) == v

\* (x + n) % n
WrapTile(v, n) == Rem(v + n, n)

\* One axis of tile_coords after `as i64`: where the tile of grid index v is
\* pasted.
TileOffset(v, c, dimension, tile_size) ==
    Truncate(2 * tile_size * (WorldDen * v - c) + WorldDen * dimension,
             2 * WorldDen)

\* A fetched tile: a decoded image of some size.
Tile(width, height) == [width |-> width, height |-> height]

\* What a tile source may answer to the fetch of one tile: a tile of the
\* configured size, a tile half as wide, or an error.
TileOutcomes(tile_size) ==
    {[ok |-> TRUE, tile |-> Tile(w, tile_size)] :
        w \in {tile_size, tile_size \div 2}}
    \cup {[ok |-> FALSE, error |-> "Unknown"]}

WellSized(outcome, tile_size) ==
    /\ outcome.ok
    /\ outcome.tile.width = tile_size
    /\ outcome.tile.height = tile_size

(***************************************************************************)
(* The inputs of the model                                                 *)
(***************************************************************************)

\* At most this many drawables in one snapshot call.
MaxDrawables == 2

\* At most this many answers of the tile source in one snapshot call are
\* not a tile of the configured size.
MaxFaults == 1

\* The cells of the overlay the drawables of the model write to.
Cells == {"a", "b"}

\* What the setters of the builders are called with.
BuilderKinds == {"sync", "tokio"}

BuilderTileSizes == {128, 512}

BuilderHeights == {0, 256}

BuilderWidths == {256, 384}

BuilderZooms == {Constant(1), Automatic(2)}

\* The builders the Snapr of a snapshot call is built from.
SnapshotBuilders ==
    {[NewBuilder("sync") EXCEPT !.tile_fetcher = Some(f),
                                !.height = Some(256),
                                !.width = Some(w), !.zoom = Some(z)] :
        f \in SyncFetchers, w \in {256},
        z \in {Constant(1), Automatic(0), Automatic(2)}}
    \cup {[NewBuilder("sync") EXCEPT !.tile_fetcher = Some("Individual"),
                                     !.width = Some(0)]}

\* A drawable: what as_geometry returns (a point or None) and the cells its
\* draw writes.
Drawable(geometry, cells) == [geometry |-> geometry, cells |-> cells]

DrawableKinds ==
    {Drawable(None, {"a"}),
     Drawable(Some([x |-> 66513, y |-> -180]), {"a", "b"}),
     Drawable(Some([x |-> 89991, y |-> -180]), {"b"})}

SeqsUpTo(S, n) == UNION {[1..k -> S] : k \in 0..n}

(***************************************************************************)
(* snapshot_from_drawables                                                 *)
(***************************************************************************)

Ok(v) == [ok |-> TRUE, image |-> v]

Err(e) == [ok |-> FALSE, error |-> e]

builderVars == <<builder, built>>

zoomVars == <<zin, zout>>

styleVars == <<styles, target, taken, acc>>

asyncVars == <<bridge, tasks, finished, tiles, batch, ran>>

gridVars == <<gin, gout>>

pixelVars == <<pin, pout>>

geomVars == <<geoms, lenient, apart, wrapped>>

sizeVars == <<fetched, got>>

\* The variables of the calls modelled on their own.
pureVars ==
    <<zoomVars, styleVars, gridVars, pixelVars, geomVars, sizeVars>>

\* No tile grid is being computed.
NoGrid ==
    /\ gin = None
    /\ gout = <<>>

\* No pixel is being projected.
NoPixel ==
    /\ pin = None
    /\ pout = None

\* No tile is being fetched by a Snapper.
NoSize ==
    /\ fetched = None
    /\ got = None

\* No geometry is being drawn.
NoGeoms ==
    /\ geoms = <<>>
    /\ lenient = FALSE
    /\ apart = None
    /\ wrapped = None

\* No bridging thread has been spawned.
NoBridge ==
    /\ bridge = "none"
    /\ tasks = <<>>
    /\ finished = <<>>
    /\ tiles = <<>>
    /\ batch = None
    /\ ran = {}

\* No style is being reduced.
NoStyles ==
    /\ styles = <<>>
    /\ target = "None"
    /\ taken = 0
    /\ acc = None

configVars == <<rayon, snapr, drawables>>

tileVars == <<matrix, pending, collected, calls, faults, image>>

drawVars == <<drawing, drawn, pixmap>>

Init ==
    /\ builder \in SnapshotBuilders
    /\ built = BuildResult(builder)
    /\ snapr = built.snapr
    /\ rayon \in BOOLEAN
    /\ drawables \in SeqsUpTo(DrawableKinds, MaxDrawables)
    /\ pc = "start"
    /\ center = None
    /\ zoom = -1
    /\ matrix = <<>>
    /\ pending = {}
    /\ collected = <<>>
    /\ calls = <<>>
    /\ faults = 0
    /\ image = <<>>
    /\ drawing = -1
    /\ drawn = <<>>
    /\ pixmap = [cell \in Cells |-> -1]
    /\ result = None
    /\ zin = None
    /\ zout = -1
    /\ NoStyles
    /\ NoBridge
    /\ NoGrid
    /\ NoPixel
    /\ NoGeoms
    /\ NoSize

\* drawables.iter().flat_map(|drawable| drawable.as_geometry())
Geometries(ds) ==
    {ds[i].geometry.value : i \in {j \in 1..Len(ds) : ds[j].geometry.some}}

\* The zoom level of the call.
ZoomLevel(policy, bounding_box, tile_size, width, height) ==
    IF policy.kind = "Constant"
    THEN policy.level
    ELSE zoom_from_geometries(bounding_box, policy.level, tile_size, width,
                              height)

\* The call returns r.
Return(r) ==
    /\ result' = r
    /\ pc' = "done"

\* From the entry of snapshot_from_drawables to the match on the tile source
\* in overlay_backing_tiles.
Begin ==
    /\ pc = "start"
    /\ UNCHANGED <<builderVars, pureVars, asyncVars, configVars, drawVars>>
    /\ UNCHANGED <<collected, calls, faults, image>>
    /\ LET geometries == Geometries(drawables)
       IN  IF snapr.width = 0 \/ snapr.height = 0
           THEN /\ Return(Err("PixmapConstruction"))
                /\ UNCHANGED <<center, zoom, matrix, pending>>
           ELSE IF Centroids(geometries) = {}
           THEN /\ Return(Err("CentroidCalculation"))
                /\ UNCHANGED <<center, zoom, matrix, pending>>
           ELSE IF snapr.zoom.kind = "Automatic"
                   /\ ~BoundingRect(geometries).some
           THEN /\ Return(Err("BoundingBoxCalculation"))
                /\ UNCHANGED <<center, zoom, matrix, pending>>
           ELSE \E c \in Centroids(geometries) :
                    LET level == ZoomLevel(snapr.zoom,
                                           BoundingRect(geometries).value,
                                           snapr.tile_size, snapr.width,
                                           snapr.height)
                        epsg_3857_center == epsg_4326_to_epsg_3857(level, c)
                        cells ==
                            CoordinateMatrix(
                                GridMin(epsg_3857_center.x, snapr.width,
                                        snapr.tile_size),
                                GridMax(epsg_3857_center.x, snapr.width,
                                        snapr.tile_size),
                                GridMin(epsg_3857_center.y, snapr.height,
                                        snapr.tile_size),
                                GridMax(epsg_3857_center.y, snapr.height,
                                        snapr.tile_size))
                    IN  /\ center' = c
                        /\ zoom' = level
                        /\ matrix' = cells
                        /\ pending' = DOMAIN cells
                        /\ pc' = "tiles"
                        /\ result' = result

(***************************************************************************)
(* overlay_backing_tiles                                                   *)
(***************************************************************************)

Individual == snapr.tile_fetcher.shape = "Individual"

Batch == snapr.tile_fetcher.shape = "Batch"

\* The call x_y_to_tile makes for the grid cell, with the source's answer.
FetchTile(cell, level, outcome) ==
    LET n == Pow2(level)
    IN  [shape |-> "Individual", x |-> WrapTile(cell[1], n),
         y |-> WrapTile(cell[2], n), zoom |-> level, grid |-> cell,
         outcome |-> outcome]

\* A tile with the place it is pasted at: the grid cell it was fetched for
\* and the offsets computed from it.
Placed(cell, tile) ==
    LET epsg_3857_center == epsg_4326_to_epsg_3857(zoom, center)
    IN  [grid |-> cell, tile |-> tile,
         x |-> TileOffset(cell[1], epsg_3857_center.x, snapr.width,
                          snapr.tile_size),
         y |-> TileOffset(cell[2], epsg_3857_center.y, snapr.height,
                          snapr.tile_size)]

Admitted(outcome) == WellSized(outcome, snapr.tile_size) \/ faults < MaxFaults

Counted(outcome) ==
    faults + (IF WellSized(outcome, snapr.tile_size) THEN 0 ELSE 1)

\* Without rayon: the next cell of the matrix is fetched and pasted, and an
\* error of the source is returned.
FetchSequential ==
    /\ pc = "tiles"
    /\ Individual
    /\ ~rayon
    /\ pending # {}
    /\ UNCHANGED <<builderVars, pureVars, asyncVars, configVars, drawVars>>
    /\ UNCHANGED <<center, zoom, matrix, collected>>
    /\ LET k == Min(pending)
       IN  \E outcome \in TileOutcomes(snapr.tile_size) :
               /\ Admitted(outcome)
               /\ calls' = Append(calls, FetchTile(matrix[k], zoom, outcome))
               /\ faults' = Counted(outcome)
               /\ IF outcome.ok
                  THEN /\ image' = Append(image, Placed(matrix[k], outcome.tile))
                       /\ pending' = pending \ {k}
                       /\ UNCHANGED <<pc, result>>
                  ELSE /\ Return(Err(outcome.error))
                       /\ UNCHANGED <<image, pending>>

\* With rayon: a worker of the pool fetches some cell not yet fetched;
\* flat_map keeps the tile of an Ok and nothing of an Err.
FetchParallel ==
    /\ pc = "tiles"
    /\ Individual
    /\ rayon
    /\ UNCHANGED <<builderVars, pureVars, asyncVars, configVars, drawVars>>
    /\ UNCHANGED <<center, zoom, matrix, image, pc, result>>
    /\ \E k \in pending :
           \E outcome \in TileOutcomes(snapr.tile_size) :
               /\ Admitted(outcome)
               /\ calls' = Append(calls, FetchTile(matrix[k], zoom, outcome))
               /\ faults' = Counted(outcome)
               /\ pending' = pending \ {k}
               /\ collected' =
                      IF outcome.ok
                      THEN Append(collected, Placed(matrix[k], outcome.tile))
                      ELSE collected

\* Every cell of the matrix has been through x_y_to_tile.
TilesFetched ==
    /\ pc = "tiles"
    /\ Individual
    /\ pending = {}
    /\ pc' = IF rayon THEN "paste" ELSE "draw"
    /\ UNCHANGED <<builderVars, pureVars, asyncVars, configVars, drawVars, tileVars>>
    /\ UNCHANGED <<center, zoom, result>>

\* With rayon: the collected tiles are pasted, in the order collected.
PasteCollected ==
    /\ pc = "paste"
    /\ Individual
    /\ collected # <<>>
    /\ image' = Append(image, Head(collected))
    /\ collected' = Tail(collected)
    /\ UNCHANGED <<builderVars, pureVars, asyncVars, configVars, drawVars>>
    /\ UNCHANGED <<center, zoom, matrix, pending, calls, faults, pc, result>>

\* What a batch source may answer: an error, or one tile for each
\* coordinate it was handed, with the coordinate it was handed.
BatchOutcomes(coordinate_matrix, tile_size) ==
    {[ok |-> FALSE, error |-> "Unknown"]}
    \cup {[ok |-> TRUE,
           tiles |-> [k \in DOMAIN coordinate_matrix |->
                         [x |-> coordinate_matrix[k][1],
                          y |-> coordinate_matrix[k][2],
                          tile |-> IF k \in odd
                                   THEN Tile(tile_size \div 2, tile_size)
                                   ELSE Tile(tile_size, tile_size)]]] :
          odd \in {S \in SUBSET DOMAIN coordinate_matrix :
                      Cardinality(S) <= MaxFaults}}

BatchWellSized(outcome, tile_size) ==
    /\ outcome.ok
    /\ \A k \in DOMAIN outcome.tiles :
           outcome.tiles[k].tile = Tile(tile_size, tile_size)

\* The one call of fetch_tiles, with the matrix as computed.
FetchBatch ==
    /\ pc = "tiles"
    /\ Batch
    /\ UNCHANGED <<builderVars, pureVars, asyncVars, configVars, drawVars>>
    /\ UNCHANGED <<center, zoom, matrix, pending, image>>
    /\ \E outcome \in BatchOutcomes(matrix, snapr.tile_size) :
           /\ calls' = Append(calls, [shape |-> "Batch",
                                      coordinate_matrix |-> matrix,
                                      zoom |-> zoom, outcome |-> outcome])
           /\ faults' = IF BatchWellSized(outcome, snapr.tile_size)
                        THEN faults
                        ELSE faults + 1
           /\ IF outcome.ok
              THEN /\ collected' = outcome.tiles
                   /\ pc' = "paste"
                   /\ result' = result
              ELSE /\ Return(Err(outcome.error))
                   /\ collected' = collected

\* The next tile of the batch is pasted where the coordinate returned with
\* it says.
PasteBatch ==
    /\ pc = "paste"
    /\ Batch
    /\ collected # <<>>
    /\ LET r == Head(collected)
       IN  image' = Append(image, Placed(<<r.x, r.y>>, r.tile))
    /\ collected' = Tail(collected)
    /\ UNCHANGED <<builderVars, pureVars, asyncVars, configVars, drawVars>>
    /\ UNCHANGED <<center, zoom, matrix, pending, calls, faults, pc, result>>

\* overlay_backing_tiles returns Ok(()).
TilesPasted ==
    /\ pc = "paste"
    /\ collected = <<>>
    /\ pc' = "draw"
    /\ UNCHANGED <<builderVars, pureVars, asyncVars, configVars, drawVars, tileVars>>
    /\ UNCHANGED <<center, zoom, result>>

(***************************************************************************)
(* The draw loop and the merge                                             *)
(***************************************************************************)

\* The same items with the indices counted from the end.
EnumerateReversed(ds) ==
    [i \in 1..Len(ds) |-> [index |-> Len(ds) - i, drawable |-> ds[i]]]

\* drawables.iter().enumerate()
Enumerate(ds) == [i \in 1..Len(ds) |-> [index |-> i - 1, drawable |-> ds[i]]]

\* try_for_each takes the next item and calls its draw with the item's index
\* in the context.
DrawStart ==
    /\ pc = "draw"
    /\ drawing = -1
    /\ Len(drawn) < Len(drawables)
    /\ drawing' = Enumerate(drawables)[Len(drawn) + 1].index
    /\ UNCHANGED <<builderVars, pureVars, asyncVars, configVars, tileVars>>
    /\ UNCHANGED <<center, zoom, drawn, pixmap, pc, result>>

\* The running draw returns: Ok after writing its cells, or an error, which
\* the call returns.
DrawFinish ==
    /\ pc = "draw"
    /\ drawing # -1
    /\ UNCHANGED <<builderVars, pureVars, asyncVars, configVars, tileVars>>
    /\ UNCHANGED <<center, zoom>>
    /\ LET item == Enumerate(drawables)[Len(drawn) + 1]
       IN  \E drew \in BOOLEAN :
               IF drew
               THEN /\ pixmap' = [cell \in Cells |->
                                     IF cell \in item.drawable.cells
                                     THEN drawing
                                     ELSE pixmap[cell]]
                    /\ drawn' = Append(drawn, [index |-> drawing,
                                               drawable |-> item.drawable])
                    /\ drawing' = -1
                    /\ UNCHANGED <<pc, result>>
               ELSE /\ Return(Err("Draw"))
                    /\ UNCHANGED <<drawing, drawn, pixmap>>

\* The overlay is merged onto the tiles and the image returned.
Merge ==
    /\ pc = "draw"
    /\ drawing = -1
    /\ Len(drawn) = Len(drawables)
    /\ Return(Ok([width |-> snapr.width, height |-> snapr.height,
                  tiles |-> image, overlay |-> pixmap]))
    /\ UNCHANGED <<builderVars, pureVars, asyncVars, configVars, tileVars, drawVars>>
    /\ UNCHANGED <<center, zoom>>

Next ==
    \/ Begin
    \/ FetchSequential
    \/ FetchParallel
    \/ TilesFetched
    \/ PasteCollected
    \/ FetchBatch
    \/ PasteBatch
    \/ TilesPasted
    \/ DrawStart
    \/ DrawFinish
    \/ Merge

Spec == Init /\ [][Next]_vars

(***************************************************************************)
(* The builders, from new() to build()                                     *)
(***************************************************************************)

\* No snapshot call and no zoom call is under way.
NoSnapshot ==
    /\ rayon = FALSE
    /\ snapr = None
    /\ drawables = <<>>
    /\ pc = "idle"
    /\ center = None
    /\ zoom = -1
    /\ matrix = <<>>
    /\ pending = {}
    /\ collected = <<>>
    /\ calls = <<>>
    /\ faults = 0
    /\ image = <<>>
    /\ drawing = -1
    /\ drawn = <<>>
    /\ pixmap = [cell \in Cells |-> -1]
    /\ result = None

snapshotVars ==
    <<configVars, tileVars, drawVars, pc, center, zoom, result>>

InitBuild ==
    /\ \E kind \in BuilderKinds : builder = NewBuilder(kind)
    /\ built = None
    /\ NoSnapshot
    /\ zin = None
    /\ zout = -1
    /\ NoStyles
    /\ NoBridge
    /\ NoGrid
    /\ NoPixel
    /\ NoGeoms
    /\ NoSize

with_tile_fetcher ==
    /\ built = None
    /\ \E tile_fetcher \in FetchersOf(builder.kind) :
           builder' = [builder EXCEPT !.tile_fetcher = Some(tile_fetcher)]
    /\ UNCHANGED <<built, snapshotVars, pureVars, asyncVars>>

with_tile_size ==
    /\ built = None
    /\ \E tile_size \in BuilderTileSizes :
           builder' = [builder EXCEPT !.tile_size = Some(tile_size)]
    /\ UNCHANGED <<built, snapshotVars, pureVars, asyncVars>>

with_height ==
    /\ built = None
    /\ \E height \in BuilderHeights :
           builder' = [builder EXCEPT !.height = Some(height)]
    /\ UNCHANGED <<built, snapshotVars, pureVars, asyncVars>>

with_width ==
    /\ built = None
    /\ \E width \in BuilderWidths :
           builder' = [builder EXCEPT !.width = Some(width)]
    /\ UNCHANGED <<built, snapshotVars, pureVars, asyncVars>>

with_zoom ==
    /\ built = None
    /\ \E level \in BuilderZooms :
           builder' = [builder EXCEPT !.zoom = Some(level)]
    /\ UNCHANGED <<built, snapshotVars, pureVars, asyncVars>>

build ==
    /\ built = None
    /\ built' = BuildResult(builder)
    /\ UNCHANGED <<builder, snapshotVars, pureVars, asyncVars>>

NextBuild ==
    \/ with_tile_fetcher
    \/ with_tile_size
    \/ with_height
    \/ with_width
    \/ with_zoom
    \/ build

SpecBuild == InitBuild /\ [][NextBuild]_vars

(***************************************************************************)
(* zoom_from_geometries on its own                                         *)
(***************************************************************************)

ZoomTileSizes == {256, 512}

ZoomWidths == {255, 256, 800}

ZoomHeights == {256, 600}

ZoomMaxLevels == {0, 2, DefaultMaxZoom}

\* The bounding rectangles of the non-empty sets of points of the model.
BoundingBoxes ==
    {RectNew(p, q) : p \in GeoPoints, q \in GeoPoints}

InitZoom ==
    /\ zin \in [bounding_box : BoundingBoxes, max_zoom : ZoomMaxLevels,
                tile_size : ZoomTileSizes, width : ZoomWidths,
                height : ZoomHeights]
    /\ zout = -1
    /\ builder = None
    /\ built = None
    /\ NoSnapshot
    /\ NoStyles
    /\ NoBridge
    /\ NoGrid
    /\ NoPixel
    /\ NoGeoms
    /\ NoSize

CallZoomFromGeometries ==
    /\ zout = -1
    /\ zout' = zoom_from_geometries(zin.bounding_box, zin.max_zoom,
                                    zin.tile_size, zin.width, zin.height)
    /\ UNCHANGED <<zin, builderVars, snapshotVars, styleVars, asyncVars,
                   gridVars, pixelVars, geomVars, sizeVars>>

NextZoom == CallZoomFromGeometries

SpecZoom == InitZoom /\ [][NextZoom]_vars

(***************************************************************************)
(* Style::for_point, for_line and for_polygon                              *)
(***************************************************************************)

ColorOptions(foreground, background, anti_alias, border) ==
    [foreground |-> foreground, background |-> background,
     anti_alias |-> anti_alias, border |-> border]

PointStyle(color_options, representation, label) ==
    [kind |-> "Point", color_options |-> color_options,
     representation |-> representation, label |-> label]

LineStyle(color_options, width) ==
    [kind |-> "Line", color_options |-> color_options, width |-> width]

PolygonStyle(color_options) ==
    [kind |-> "Polygon", color_options |-> color_options]

\* Style::Dynamic: answer is what the DynamicStyle returns from the one of
\* for_point, for_line and for_polygon it implements, None from the others.
Dynamic(answer) == [kind |-> "Dynamic", answer |-> answer]

\* b.or(a)
OptionOr(b, a) == IF b.some THEN b ELSE a

\* b.xor(a)
OptionXor(b, a) ==
    IF b.some /\ ~a.some THEN b ELSE IF a.some /\ ~b.some THEN a ELSE None

\* A merge in which the fields of a take priority.
MergeLeftBiased(a, b) ==
    IF a.kind = "Point"
    THEN PointStyle(ColorOptions(a.color_options.foreground,
                                 a.color_options.background,
                                 a.color_options.anti_alias,
                                 OptionOr(a.color_options.border,
                                          b.color_options.border)),
                    a.representation, OptionOr(a.label, b.label))
    ELSE IF a.kind = "Line"
    THEN LineStyle(ColorOptions(a.color_options.foreground,
                                a.color_options.background,
                                a.color_options.anti_alias,
                                OptionOr(a.color_options.border,
                                         b.color_options.border)),
                   a.width)
    ELSE PolygonStyle(ColorOptions(a.color_options.foreground,
                                   a.color_options.background,
                                   a.color_options.anti_alias,
                                   OptionOr(a.color_options.border,
                                            b.color_options.border)))

\* A border kept only when exactly one of the two styles has one.
MergeBorderXor(a, b) ==
    OptionXor(b.color_options.border, a.color_options.border)

\* The border of a merge: b.color_options.border.or(a.color_options.border).
MergeBorder(a, b) == OptionOr(b.color_options.border, a.color_options.border)

merge_point_styles(a, b) ==
    PointStyle(ColorOptions(b.color_options.foreground,
                            b.color_options.background,
                            b.color_options.anti_alias,
                            MergeBorder(a, b)),
               b.representation, OptionOr(b.label, a.label))

merge_line_styles(a, b) ==
    LineStyle(ColorOptions(b.color_options.foreground,
                           b.color_options.background,
                           b.color_options.anti_alias,
                           MergeBorder(a, b)),
              b.width)

merge_polygon_styles(a, b) ==
    PolygonStyle(ColorOptions(b.color_options.foreground,
                              b.color_options.background,
                              b.color_options.anti_alias,
                              MergeBorder(a, b)))

\* The function reduce is called with, for the kind the styles are reduced to.
MergeStyles(a, b) ==
    IF a.kind = "Point" THEN merge_point_styles(a, b)
    ELSE IF a.kind = "Line" THEN merge_line_styles(a, b)
    ELSE merge_polygon_styles(a, b)

\* The closure of flat_map: what a style yields when reduced to the kind.
Yielded(style, kind) ==
    IF style.kind = "Dynamic"
    THEN IF style.answer.some /\ style.answer.value.kind = kind
         THEN style.answer
         ELSE None
    ELSE IF style.kind = kind THEN Some(style) ELSE None

\* At most this many styles in one call.
MaxStyles == 3

Colors == {"c1", "c2"}

Borders == {None, Some(2), Some(4)}

\* The styles of the model: every field takes two values or more.
PointStyles ==
    {PointStyle(ColorOptions(fg, IF border.some THEN "c1" ELSE "c2",
                             fg = "c1", border),
                IF fg = "c1" THEN "Circle4" ELSE "Circle2",
                IF border = Some(2) THEN None
                ELSE IF border = None THEN Some("l1") ELSE Some("l2")) :
        fg \in Colors, border \in Borders}

LineStyles ==
    {LineStyle(ColorOptions(IF border.some THEN "c1" ELSE "c2",
                            IF border = Some(4) THEN "c1" ELSE "c2",
                            border = None, border),
               IF border = Some(2) THEN 3 ELSE 5) : border \in Borders}

PolygonStyles ==
    {PolygonStyle(ColorOptions(IF border.some THEN "c1" ELSE "c2", "c1",
                               border.some, border)) :
        border \in {None, Some(2)}}

DynamicStyles ==
    {Dynamic(None),
     Dynamic(Some(PointStyle(ColorOptions("c2", "c2", TRUE, Some(4)),
                             "Circle4", None)))}

Styles == PointStyles \cup LineStyles \cup PolygonStyles \cup DynamicStyles

NoBuilder ==
    /\ builder = None
    /\ built = None

InitStyle ==
    /\ styles \in SeqsUpTo(Styles, MaxStyles)
    /\ target \in {"Point", "Line", "Polygon"}
    /\ taken = 0
    /\ acc = None
    /\ NoBuilder
    /\ NoSnapshot
    /\ zin = None
    /\ zout = -1
    /\ NoBridge
    /\ NoGrid
    /\ NoPixel
    /\ NoGeoms
    /\ NoSize

\* reduce takes the next style the closure of flat_map yields, if any, and
\* merges it into the accumulator.
Reduce ==
    /\ target # "None"
    /\ taken < Len(styles)
    /\ taken' = taken + 1
    /\ LET yielded == Yielded(styles[taken + 1], target)
       IN  acc' = IF ~yielded.some THEN acc
                  ELSE IF ~acc.some THEN yielded
                  ELSE Some(MergeStyles(acc.value, yielded.value))
    /\ UNCHANGED <<styles, target, builderVars, snapshotVars, zoomVars,
                   asyncVars, gridVars, pixelVars, geomVars, sizeVars>>

NextStyle == Reduce

SpecStyle == InitStyle /\ [][NextStyle]_vars

(***************************************************************************)
(* TokioTileFetcher: the bridge to an asynchronous tile source             *)
(***************************************************************************)

AsyncIndividual == snapr.tile_fetcher.inner = "AsyncIndividual"

AsyncBatch == snapr.tile_fetcher.inner = "AsyncBatch"

\* The threads: the one that calls snapshot_from_drawables, the one
\* fetch_tiles spawns, and the workers of the runtime behind the Handle.
CallingThread == "caller"

BridgingThread == "bridge"

RuntimeWorker == "runtime"

\* Handle::block_on runs its future on the thread that calls it.
BlockOnThread == BridgingThread

\* The tasks run where fetch_tiles was called.
TaskInline == CallingThread

\* JoinSet::spawn hands the task to the runtime.
TaskThread == RuntimeWorker

Work(what, thread) == [work |-> what, thread |-> thread]

\* What an asynchronous fetch_tile of (x, y) ends in: a tile of the
\* configured size, an error, or a panic. The tile records what it was
\* fetched for.
TaskOutcomes(x, y, tile_size) ==
    {[kind |-> "ok",
      tile |-> [width |-> tile_size, height |-> tile_size,
                fetched_for |-> <<x, y>>]],
     [kind |-> "err", error |-> "Unknown"],
     [kind |-> "panic"]}

\* The entry pushed for the tile at a position of the completion order,
\* paired with the coordinates of the position.
EntryByPosition(k, position, tile) ==
    [x |-> matrix[position][1], y |-> matrix[position][2], tile |-> tile]

\* tile.map(|tile| (x, y, tile)): the entry of the task spawned for position
\* k of the matrix, whatever the position at which it completes.
Entry(k, position, tile) ==
    [x |-> matrix[k][1], y |-> matrix[k][2], tile |-> tile]

\* A failed task's error, with the panic left as the error of the fetch.
JoinErrorUnmapped(outcome) == "Unknown"

\* task.map_err(|_| Error::AsynchronousTaskPanic)??: the error a failed task
\* is joined with.
JoinError(outcome) ==
    IF outcome.kind = "panic"
    THEN "AsynchronousTaskPanic"
    ELSE outcome.error

Task(state, outcome) == [state |-> state, outcome |-> outcome]

\* Dropping the JoinSet aborts the tasks still running.
Aborted(ts) ==
    [k \in DOMAIN ts |->
        IF ts[k].state \in {"unspawned", "running"}
        THEN Task("aborted", ts[k].outcome)
        ELSE ts[k]]

\* The builders the Snapr of a bridged snapshot call is built from.
BridgedBuilders ==
    {[NewBuilder("tokio") EXCEPT !.tile_fetcher = Some(f),
                                 !.height = Some(256),
                                 !.width = Some(256), !.zoom = Some(z)] :
        f \in AsyncFetchers, z \in {Constant(1), Automatic(0)}}

InitAsync ==
    /\ builder \in BridgedBuilders
    /\ built = BuildResult(builder)
    /\ snapr = built.snapr
    /\ rayon \in BOOLEAN
    /\ drawables \in {<<d>> : d \in DrawableKinds}
    /\ pc = "start"
    /\ center = None
    /\ zoom = -1
    /\ matrix = <<>>
    /\ pending = {}
    /\ collected = <<>>
    /\ calls = <<>>
    /\ faults = 0
    /\ image = <<>>
    /\ drawing = -1
    /\ drawn = <<>>
    /\ pixmap = [cell \in Cells |-> -1]
    /\ result = None
    /\ zin = None
    /\ zout = -1
    /\ NoStyles
    /\ NoBridge
    /\ NoGrid
    /\ NoPixel
    /\ NoGeoms
    /\ NoSize

\* fetch_tiles: thread::scope and scope.spawn; the calling thread goes on to
\* spawned.join().
BridgeSpawn ==
    /\ pc = "tiles"
    /\ Batch
    /\ bridge = "none"
    /\ pc' = "bridged"
    /\ bridge' = IF AsyncIndividual THEN "spawning" ELSE "batch"
    /\ tasks' = [k \in DOMAIN matrix |-> Task("unspawned", None)]
    /\ ran' = ran \cup {Work("block_on", BlockOnThread)}
    /\ UNCHANGED <<builderVars, pureVars, configVars, drawVars, tileVars>>
    /\ UNCHANGED <<center, zoom, result, finished, tiles, batch>>

\* fetch_tiles_in_batch, Individual: the loop spawns the task of the next
\* coordinate of the matrix.
SpawnTask ==
    /\ bridge = "spawning"
    /\ LET k == Min({j \in DOMAIN tasks : tasks[j].state = "unspawned"})
       IN  /\ tasks' = [tasks EXCEPT ![k] = Task("running", None)]
           /\ bridge' = IF k = Len(matrix) THEN "joining" ELSE "spawning"
    /\ UNCHANGED <<builderVars, pureVars, snapshotVars>>
    /\ UNCHANGED <<finished, tiles, batch, ran>>

\* A running task ends: fetch_tile has returned, or panicked.
TaskFinish ==
    /\ bridge \in {"spawning", "joining"}
    /\ \E k \in {j \in DOMAIN tasks : tasks[j].state = "running"} :
           \E outcome \in TaskOutcomes(matrix[k][1], matrix[k][2],
                                       snapr.tile_size) :
               /\ tasks' = [tasks EXCEPT ![k] = Task("finished", Some(outcome))]
               /\ finished' = Append(finished, k)
               /\ calls' = Append(calls, [shape |-> "AsyncIndividual",
                                          x |-> matrix[k][1],
                                          y |-> matrix[k][2],
                                          zoom |-> zoom, outcome |-> outcome])
    /\ ran' = ran \cup {Work("fetch_tile", TaskThread)}
    /\ UNCHANGED <<builderVars, pureVars, configVars, drawVars>>
    /\ UNCHANGED <<center, zoom, pc, result, matrix, pending, collected,
                   faults, image, bridge, tiles, batch>>

\* tasks.join_next() hands out the next finished task: its tile is pushed,
\* or its error, or AsynchronousTaskPanic for its panic, returned. After the
\* last task Ok(tiles) is returned.
JoinNext ==
    /\ bridge = "joining"
    /\ finished # <<>>
    /\ finished' = Tail(finished)
    /\ LET k == Head(finished)
           outcome == tasks[k].outcome.value
           joined == [tasks EXCEPT ![k] = Task("joined", Some(outcome))]
       IN  IF outcome.kind = "ok"
           THEN LET pushed == Append(tiles, Entry(k, Len(tiles) + 1,
                                                  outcome.tile))
                IN  /\ tiles' = pushed
                    /\ tasks' = joined
                    /\ IF \A j \in DOMAIN joined : joined[j].state = "joined"
                       THEN /\ batch' = [ok |-> TRUE, tiles |-> pushed]
                            /\ bridge' = "returned"
                       ELSE UNCHANGED <<batch, bridge>>
           ELSE /\ batch' = Err(JoinError(outcome))
                /\ bridge' = "returned"
                /\ tasks' = Aborted(joined)
                /\ tiles' = tiles
    /\ UNCHANGED <<builderVars, pureVars, snapshotVars, ran>>

\* fetch_tiles_in_batch, Batch: the one call of the asynchronous fetch_tiles.
InnerFetchTiles ==
    /\ bridge = "batch"
    /\ batch' \in BatchOutcomes(matrix, snapr.tile_size)
    /\ bridge' = "returned"
    /\ ran' = ran \cup {Work("fetch_tiles", BlockOnThread)}
    /\ UNCHANGED <<builderVars, pureVars, snapshotVars>>
    /\ UNCHANGED <<tasks, finished, tiles>>

\* The bridging thread panics: in block_on, or in the future it runs.
BridgePanic ==
    /\ bridge \in {"spawning", "joining", "batch"}
    /\ bridge' = "panicked"
    /\ tasks' = Aborted(tasks)
    /\ UNCHANGED <<builderVars, pureVars, snapshotVars>>
    /\ UNCHANGED <<finished, tiles, batch, ran>>

\* spawned.join() returns on the calling thread: the batch, or
\* AsynchronousTaskPanic when the thread panicked.
BridgeJoin ==
    /\ pc = "bridged"
    /\ bridge \in {"returned", "panicked"}
    /\ LET outcome == IF bridge = "panicked"
                      THEN Err("AsynchronousTaskPanic")
                      ELSE batch
       IN  /\ calls' = Append(calls, [shape |-> "Batch",
                                      coordinate_matrix |-> matrix,
                                      zoom |-> zoom, outcome |-> outcome])
           /\ IF outcome.ok
              THEN /\ collected' = outcome.tiles
                   /\ pc' = "paste"
                   /\ result' = result
              ELSE /\ Return(Err(outcome.error))
                   /\ collected' = collected
    /\ UNCHANGED <<builderVars, pureVars, configVars, drawVars, asyncVars>>
    /\ UNCHANGED <<center, zoom, matrix, pending, faults, image>>

NextAsync ==
    \/ Begin
    \/ BridgeSpawn
    \/ SpawnTask
    \/ TaskFinish
    \/ JoinNext
    \/ InnerFetchTiles
    \/ BridgePanic
    \/ BridgeJoin
    \/ PasteBatch
    \/ TilesPasted
    \/ DrawStart
    \/ DrawFinish
    \/ Merge

SpecAsync == InitAsync /\ [][NextAsync]_vars

(***************************************************************************)
(* The tile grid of overlay_backing_tiles on its own                       *)
(***************************************************************************)

\* The cells of the grid around the center, in the order of the matrix, each
\* with a tile of the configured size at the offsets computed for the cell.
TileGrid(c, level, tile_size, width, height) ==
    LET epsg_3857_center == epsg_4326_to_epsg_3857(level, c)
        cells == CoordinateMatrix(
                     GridMin(epsg_3857_center.x, width, tile_size),
                     GridMax(epsg_3857_center.x, width, tile_size),
                     GridMin(epsg_3857_center.y, height, tile_size),
                     GridMax(epsg_3857_center.y, height, tile_size))
    IN  [k \in DOMAIN cells |->
            [grid |-> cells[k], tile |-> Tile(tile_size, tile_size),
             x |-> TileOffset(cells[k][1], epsg_3857_center.x, width,
                              tile_size),
             y |-> TileOffset(cells[k][2], epsg_3857_center.y, height,
                              tile_size)]]

GridTileSizes == {256}

GridWidths == {255, 256, 600}

GridHeights == {255, 256}

GridZooms == {0, 1, 2}

InitGrid ==
    /\ gin \in [center : GeoPoints, zoom : GridZooms,
                tile_size : GridTileSizes, width : GridWidths,
                height : GridHeights]
    /\ gout = <<>>
    /\ NoBuilder
    /\ NoSnapshot
    /\ zin = None
    /\ zout = -1
    /\ NoStyles
    /\ NoBridge
    /\ NoPixel
    /\ NoGeoms
    /\ NoSize

ComputeGrid ==
    /\ gin # None
    /\ gout = <<>>
    /\ gout' = TileGrid(gin.center, gin.zoom, gin.tile_size, gin.width,
                        gin.height)
    /\ UNCHANGED <<gin, builderVars, snapshotVars, zoomVars, styleVars,
                   asyncVars, pixelVars, geomVars, sizeVars>>

NextGrid == ComputeGrid

SpecGrid == InitGrid /\ [][NextGrid]_vars

(***************************************************************************)
(* snapper: the pixel of a point                                           *)
(***************************************************************************)

\* An f64 of the projection: a finite value in units of 1/WorldDen of a tile,
\* an infinity or a NaN.
Finite(v) == [class |-> "finite", value |-> v]

Infinity == [class |-> "inf"]

NaN == [class |-> "nan"]

\* The south pole, in thousandths of a degree: tan(lat) + 1 / cos(lat) is 0.0
\* there, and its logarithm is -inf.
SouthPole == -90000

SnapperLatitudes == Latitudes \cup {SouthPole}

SnapperPoints ==
    {[x |-> lat, y |-> lon] : lat \in SnapperLatitudes, lon \in Longitudes}

\* Snapper::epsg_4326_to_epsg_3857: n * (1 - ln(..) / PI) / 2 is +inf where
\* the logarithm is -inf.
SnapperProject(level, point) ==
    LET n == Pow2(level)
    IN  [x |-> Finite(n * (((point.y + HalfTurn) * WorldDen) \div 360)),
         y |-> IF point.x = SouthPole
                   THEN Infinity
                   ELSE Finite(n * MercatorY(point.x))]

\* f64 subtraction: inf - inf is NaN.
FloatSub(a, b) ==
    CASE a.class = "finite" /\ b.class = "finite" -> Finite(a.value - b.value)
      [] a.class = "nan" \/ b.class = "nan" -> NaN
      [] a.class = "inf" /\ b.class = "inf" -> NaN
      [] OTHER -> Infinity

\* f64::round: half away from zero.
RoundHalfAway(num, den) ==
    IF num >= 0 THEN (2 * num + den) \div (2 * den)
                ELSE -((2 * (-num) + den) \div (2 * den))

\* One axis of the pixel: (d.fract() * tile_size + dimension / 2).round() as
\* i32. The fraction of a non-finite value is NaN, and NaN as i32 is 0.
PixelAxis(d, dimension, tile_size) ==
    IF d.class = "finite"
        THEN RoundHalfAway(2 * tile_size * Rem(d.value, WorldDen)
                               + WorldDen * dimension,
                           2 * WorldDen)
        ELSE 0

\* Snapper::epsg_4326_to_pixel
epsg_4326_to_pixel(snapper, level, c, point) ==
    LET p == SnapperProject(level, point)
        q == SnapperProject(level, c)
    IN  [x |-> PixelAxis(FloatSub(p.x, q.x), snapper.width,
                         snapper.tile_size),
         y |-> PixelAxis(FloatSub(p.y, q.y), snapper.height,
                         snapper.tile_size)]

Snappers ==
    [tile_size : GridTileSizes, width : GridWidths, height : GridHeights]

PixelZooms == {0, 2}

InitPixel ==
    /\ pin \in [snapper : Snappers, zoom : PixelZooms,
                center : SnapperPoints, point : SnapperPoints]
    /\ pout = None
    /\ NoBuilder
    /\ NoSnapshot
    /\ zin = None
    /\ zout = -1
    /\ NoStyles
    /\ NoBridge
    /\ NoGrid
    /\ NoGeoms
    /\ NoSize

CallPixel ==
    /\ pin # None
    /\ pout = None
    /\ pout' = Some(epsg_4326_to_pixel(pin.snapper, pin.zoom, pin.center,
                                       pin.point))
    /\ UNCHANGED <<pin, builderVars, snapshotVars, zoomVars, styleVars,
                   asyncVars, gridVars, geomVars, sizeVars>>

NextPixel == CallPixel

SpecPixel == InitPixel /\ [][NextPixel]_vars

(***************************************************************************)
(* Drawing geometries on the overlay                                       *)
(***************************************************************************)

Point(p) == [kind |-> "Point", points |-> <<p>>]

Line(start, end) == [kind |-> "Line", points |-> <<start, end>>]

LineString(points) == [kind |-> "LineString", points |-> points]

\* A polygon by its exterior ring.
Polygon(exterior) == [kind |-> "Polygon", points |-> exterior]

GeometryCollection(children) ==
    [kind |-> "GeometryCollection", children |-> children]

\* The geometries center and zoom are computed from: centroid and
\* bounding_rect go through nested collections to the geometries in them.
RECURSIVE Leaves(_)
Leaves(geometries) ==
    IF geometries = <<>>
    THEN <<>>
    ELSE (IF Head(geometries).kind = "GeometryCollection"
              THEN Leaves(Head(geometries).children)
              ELSE <<Head(geometries)>>) \o Leaves(Tail(geometries))

\* The Context handed to draw: what center and zoom were computed from, and
\* the index of the drawable.
Context(drawn_geometries, index) ==
    [view |-> Leaves(drawn_geometries), index |-> index]

\* Context { index, ..context.clone() }
WithIndex(context, index) == [context EXCEPT !.index = index]

\* PathBuilder::finish after move_to to the first point, line_to to each of
\* the others and, for a ring, close: None when the builder holds no segment;
\* when all its points coincide, None or a path, as the library decides.
Finish(points, closed, accepts_coinciding) ==
    LET verbs == Len(points) + (IF closed /\ points # <<>> THEN 1 ELSE 0)
    IN  IF verbs <= 1
        THEN None
        ELSE IF (\A i \in DOMAIN points : points[i] = points[1])
                 /\ ~accepts_coinciding
        THEN None
        ELSE Some([points |-> points, closed |-> closed])

fill_path(path, context, color) ==
    [op |-> "fill_path", path |-> path, view |-> context.view,
     color |-> color]

stroke_path(path, context, color, width) ==
    [op |-> "stroke_path", path |-> path, view |-> context.view,
     color |-> color, width |-> width]

Drew(ops) == [ops |-> ops, ok |-> TRUE]

Failed(ops, error) == [ops |-> ops, ok |-> FALSE, error |-> error]

\* The draw of an SVG or of a label at the pixel of a point.
render(what, p, context) ==
    [op |-> "render", svg |-> what, at |-> p, view |-> context.view]

\* The style of a Line or of a LineString.
LineStringStyle(color_options, point_style, width, effect) ==
    [kind |-> "LineString", color_options |-> color_options,
     point_style |-> point_style, width |-> width, effect |-> effect]

\* The style of a Polygon as its draw reads it.
PolygonStyleOf(color_options, effect, line_style, point_style) ==
    [kind |-> "Polygon", color_options |-> color_options,
     effect |-> effect, line_style |-> line_style,
     point_style |-> point_style]

DefaultColorOptions == ColorOptions("f8f8f8ff", "1a1a1aff", TRUE, Some(1))

DefaultPointStyle == PointStyle(DefaultColorOptions, "Circle4", None)

DefaultLineStringStyle ==
    LineStringStyle([DefaultColorOptions EXCEPT !.foreground = "c4c4c4ff",
                                                !.border = Some(4)],
                    DefaultPointStyle, 3, None)

DefaultPolygonStyle ==
    PolygonStyleOf([DefaultColorOptions EXCEPT !.foreground = "f8f8f840",
                                               !.border = None],
                   None, DefaultLineStringStyle, DefaultPointStyle)

\* geometry.as_styled(style)
Styled(g, style) == [kind |-> g.kind, points |-> g.points, style |-> style]

IsStyled(d) == "style" \in DOMAIN d

\* as_geometry of a drawable: the geometry without its style.
AsGeometry(d) == [kind |-> d.kind, points |-> d.points]

\* The style a draw starts from: that of a styled geometry, or the default
\* of its kind.
StyleOf(d) ==
    IF IsStyled(d)
    THEN d.style
    ELSE CASE d.kind = "Point" -> DefaultPointStyle
           [] d.kind \in {"Line", "LineString"} -> DefaultLineStringStyle
           [] d.kind = "Polygon" -> DefaultPolygonStyle

\* The effects of the model: one makes the strokes wider and takes the border
\* off the vertices, whatever it is given, so that applying it to its own
\* result shows; one colours by the index of the context.
Effects == {"widen", "by_index"}

ApplyEffect(effect, style, g, context) ==
    LET by_index == IF context.index = 0 THEN "c1" ELSE "c2"
    IN  CASE effect = "widen" /\ style.kind = "LineString" ->
                 [style EXCEPT !.width = @ + 2,
                               !.point_style.color_options.border = None]
          [] effect = "widen" /\ style.kind = "Polygon" ->
                 [style EXCEPT !.line_style.width = @ + 2,
                               !.point_style.color_options.border = None]
          [] effect = "by_index" ->
                 [style EXCEPT !.color_options.foreground = by_index]

\* The effect has been applied to the style for the geometry in the context.
Applied(effect, style, g, context) ==
    [op |-> "apply", effect |-> effect, style |-> style,
     geometry |-> AsGeometry(g), index |-> context.index]

\* The effect applied to the style, and once more to what it returned.
ResolveTwice(d, context) ==
    LET static == StyleOf(d)
        once == ApplyEffect(static.effect.value, static, d, context)
    IN  IF static.effect.some
        THEN [style |-> ApplyEffect(once.effect.value, once, d, context),
              events |-> <<Applied(static.effect.value, static, d, context),
                           Applied(once.effect.value, once, d, context)>>]
        ELSE [style |-> static, events |-> <<>>]

\* match &self.style.effect: the style the effect returns for the static
\* style, or the static style when it has no effect.
Resolve(d, context) ==
    LET static == StyleOf(d)
    IN  IF static.effect.some
        THEN [style |-> ApplyEffect(static.effect.value, static, d, context),
              events |-> <<Applied(static.effect.value, static, d, context)>>]
        ELSE [style |-> static, events |-> <<>>]

\* The path of a representation that is a shape, at the pixel of the point.
ToPath(representation, p) == [circle |-> p, shape |-> representation]

\* The draw of the point has been called with the context.
PointDrawn(p, context) ==
    [op |-> "point", at |-> p, index |-> context.index]

\* draw of a point: an SVG representation is rendered and the draw returns;
\* a shape is filled, stroked with the border if there is one, and the label
\* rendered if there is one.
DrawPoint(p, style, context) ==
    LET shape == ToPath(style.representation, p)
        options == style.color_options
    IN  IF style.representation = "Svg"
        THEN Drew(<<PointDrawn(p, context), render("Svg", p, context)>>)
        ELSE Drew(<<PointDrawn(p, context),
                    fill_path(shape, context, options.foreground)>>
                  \o (IF options.border.some
                          THEN <<stroke_path(shape, context,
                                             options.background,
                                             options.border.value)>>
                          ELSE <<>>)
                  \o (IF style.label.some
                          THEN <<render(style.label.value, p, context)>>
                          ELSE <<>>))

\* The vertices drawn last to first.
RECURSIVE MarkersBackwards(_, _, _, _)
MarkersBackwards(points, k, point_style, context) ==
    IF k > Len(points)
    THEN <<>>
    ELSE MarkersBackwards(points, k + 1, point_style, context)
             \o DrawPoint(points[k], point_style,
                          WithIndex(context, k - 1)).ops

\* points.enumerate().try_for_each(..): each vertex drawn as a point with the
\* point style, its position as the index of the context.
RECURSIVE Markers(_, _, _, _)
Markers(points, k, point_style, context) ==
    IF k > Len(points)
    THEN <<>>
    ELSE DrawPoint(points[k], point_style, WithIndex(context, k - 1)).ops
             \o Markers(points, k + 1, point_style, context)

\* The border stroke, if the style has a border, then the foreground stroke.
Strokes(path, context, style) ==
    (IF style.color_options.border.some
         THEN <<stroke_path(path, context, style.color_options.background,
                            style.color_options.border.value)>>
         ELSE <<>>)
        \o <<stroke_path(path, context, style.color_options.foreground,
                         style.width)>>

\* draw of a Line: the effect, finish().ok_or(PathConstruction)?, the
\* strokes, then the start and end points.
DrawLine(g, context, accepts_coinciding) ==
    LET resolved == Resolve(g, context)
        line == Finish(g.points, FALSE, accepts_coinciding)
    IN  IF ~line.some
        THEN Failed(resolved.events, "PathConstruction")
        ELSE Drew(resolved.events
                      \o Strokes(line.value, context, resolved.style)
                      \o Markers(g.points, 1, resolved.style.point_style,
                                 context))

\* draw of a LineString: the effect, the strokes if finish() is Some, then
\* every point.
DrawLineString(g, context, accepts_coinciding) ==
    LET resolved == Resolve(g, context)
        lines == Finish(g.points, FALSE, accepts_coinciding)
    IN  Drew(resolved.events
                 \o (IF lines.some
                         THEN Strokes(lines.value, context, resolved.style)
                         ELSE <<>>)
                 \o Markers(g.points, 1, resolved.style.point_style,
                            context))

\* draw of a Polygon: the effect, the fill and the strokes of the line style
\* if finish() is Some, then every point of the exterior.
DrawPolygon(g, context, accepts_coinciding) ==
    LET resolved == Resolve(g, context)
        lines == Finish(g.points, TRUE, accepts_coinciding)
    IN  Drew(resolved.events
                 \o (IF lines.some
                         THEN <<fill_path(lines.value, context,
                                    resolved.style.color_options.foreground)>>
                                  \o Strokes(lines.value, context,
                                             resolved.style.line_style)
                         ELSE <<>>)
                 \o Markers(g.points, 1, resolved.style.point_style,
                            context))

\* The children in the opposite order.
ChildrenReversed(collection) ==
    [i \in DOMAIN collection.children |->
        collection.children[Len(collection.children) + 1 - i]]

\* geometry.into_iter()
Children(collection) == collection.children

\* impl Drawable for geo::Geometry, and for a styled geometry: draw of a
\* geometry that is no collection.
DrawGeometry(g, context, accepts_coinciding) ==
    CASE g.kind = "Point" -> DrawPoint(g.points[1], StyleOf(g), context)
      [] g.kind = "Line" -> DrawLine(g, context, accepts_coinciding)
      [] g.kind = "LineString" ->
             DrawLineString(g, context, accepts_coinciding)
      [] g.kind = "Polygon" -> DrawPolygon(g, context, accepts_coinciding)

MaxGeoms == 2

PixelPoints == {1, 2}

LeafGeometries ==
    {Point(p) : p \in PixelPoints}
        \cup {Line(1, p) : p \in PixelPoints}
        \cup {LineString(ps) :
                 ps \in {<<>>, <<1>>, <<1, 1>>, <<1, 2>>, <<1, 2, 1>>}}
        \cup {Polygon(ps) : ps \in {<<>>, <<1, 2, 1>>}}

\* Geometries with a style of their own: lines with an effect, with and
\* without a border, and points with a label, as a shape and as an SVG.
StyledGeometries ==
    LET labelled == PointStyle(ColorOptions("c1", "c2", FALSE, Some(2)),
                               "Circle2", Some("l1"))
        lines(border, effect) ==
            LineStringStyle(ColorOptions("c2", "c1", TRUE, border),
                            labelled, 5, Some(effect))
    IN  {Styled(LineString(<<1, 2>>), lines(border, "widen")) :
            border \in {None, Some(2)}}
        \cup {Styled(LineString(<<1, 2>>), lines(Some(2), "by_index")),
              Styled(Line(1, 2), lines(Some(2), "widen")),
              Styled(Polygon(<<1, 2, 1>>),
                     PolygonStyleOf(ColorOptions("c1", "c1", TRUE, None),
                                    Some("widen"),
                                    lines(Some(4), "by_index"), labelled))}
        \cup {Styled(Point(1), [labelled EXCEPT !.representation = r]) :
                 r \in {"Circle2", "Svg"}}

Drawables == LeafGeometries \cup StyledGeometries

\* A GeometryCollection holds geometries, not styled ones.
Plain(ds) == \A i \in DOMAIN ds : ~IsStyled(ds[i])

\* A run of try_for_each: what each draw called so far did, and what the
\* loop returned, None while it runs.
Run(log, returned) == [log |-> log, result |-> returned]

RECURSIVE OpsOf(_)
OpsOf(log) == IF log = <<>> THEN <<>> ELSE Head(log).ops \o OpsOf(Tail(log))

InitDraw ==
    /\ geoms \in SeqsUpTo(Drawables, MaxGeoms)
    /\ lenient \in BOOLEAN
    /\ apart = Run(<<>>, None)
    /\ wrapped = Run(<<>>, None)
    /\ NoBuilder
    /\ NoSnapshot
    /\ zin = None
    /\ zout = -1
    /\ NoStyles
    /\ NoBridge
    /\ NoGrid
    /\ NoPixel
    /\ NoSize

\* The next item is drawn and the loop goes on, whatever the draw returned.
ContinueRegardless(run, did) == Run(Append(run.log, did), None)

\* One step of try_for_each: the next item is drawn; an error ends the loop.
Continue(run, did) ==
    Run(Append(run.log, did),
        IF did.ok THEN None ELSE Some(Err(did.error)))

\* snapshot_from_drawables over the geometries as separate drawables: the
\* next one is drawn, with its position as the index of the context.
DrawApart ==
    /\ apart # None
    /\ apart.result = None
    /\ Len(apart.log) < Len(geoms)
    /\ LET index == Len(apart.log)
       IN  apart' = Continue(apart,
                        DrawGeometry(geoms[index + 1],
                                     Context([i \in DOMAIN geoms |->
                                                 AsGeometry(geoms[i])],
                                             index),
                                     lenient))
    /\ UNCHANGED <<geoms, lenient, wrapped>>
    /\ UNCHANGED <<builderVars, snapshotVars, zoomVars, styleVars, asyncVars,
                   gridVars, pixelVars, sizeVars>>

ApartReturn ==
    /\ apart # None
    /\ apart.result = None
    /\ Len(apart.log) = Len(geoms)
    /\ apart' = Run(apart.log, Some(Ok("drawn")))
    /\ UNCHANGED <<geoms, lenient, wrapped>>
    /\ UNCHANGED <<builderVars, snapshotVars, zoomVars, styleVars, asyncVars,
                   gridVars, pixelVars, sizeVars>>

\* snapshot_from_drawables over one drawable, the collection of the
\* geometries: its next child is drawn, with the context of the collection.
DrawWrapped ==
    /\ wrapped # None
    /\ wrapped.result = None
    /\ Plain(geoms)
    /\ Len(wrapped.log) < Len(geoms)
    /\ LET collection == GeometryCollection(geoms)
       IN  wrapped' = Continue(wrapped,
                          DrawGeometry(
                              Children(collection)[Len(wrapped.log) + 1],
                              Context(<<collection>>, 0), lenient))
    /\ UNCHANGED <<geoms, lenient, apart>>
    /\ UNCHANGED <<builderVars, snapshotVars, zoomVars, styleVars, asyncVars,
                   gridVars, pixelVars, sizeVars>>

WrappedReturn ==
    /\ wrapped # None
    /\ wrapped.result = None
    /\ Plain(geoms)
    /\ Len(wrapped.log) = Len(geoms)
    /\ wrapped' = Run(wrapped.log, Some(Ok("drawn")))
    /\ UNCHANGED <<geoms, lenient, apart>>
    /\ UNCHANGED <<builderVars, snapshotVars, zoomVars, styleVars, asyncVars,
                   gridVars, pixelVars, sizeVars>>

NextDraw ==
    \/ DrawApart
    \/ ApartReturn
    \/ DrawWrapped
    \/ WrappedReturn

SpecDraw == InitDraw /\ [][NextDraw]_vars

(***************************************************************************)
(* snapper: get_tile                                                       *)
(***************************************************************************)

IncorrectTileSize(expected, received) ==
    [name |-> "IncorrectTileSize", expected |-> expected,
     received |-> received]

\* Snapper::get_tile: the answer of the tile fetcher with its size checked,
\* the height first; the error of a wrong width holds tile.height() too.
get_tile(tile_size, answer) ==
    IF ~answer.ok
    THEN answer
    ELSE IF answer.tile.height # tile_size
    THEN Err(IncorrectTileSize(tile_size, answer.tile.height))
    ELSE IF answer.tile.width # tile_size
    THEN Err(IncorrectTileSize(tile_size, answer.tile.height))
    ELSE Ok(answer.tile)

TileDimensions == {64, 128, 256, 512}

\* What the tile fetcher of a Snapper may answer: a tile of any size, or an
\* error.
FetcherAnswers ==
    {[ok |-> TRUE, tile |-> Tile(w, h)] :
        w \in TileDimensions, h \in TileDimensions}
    \cup {Err([name |-> "Unknown"])}

InitSize ==
    /\ fetched \in [tile_size : {128, 256}, x : {0, 1}, y : {0, 1},
                    zoom : {1}, answer : FetcherAnswers]
    /\ got = None
    /\ NoBuilder
    /\ NoSnapshot
    /\ zin = None
    /\ zout = -1
    /\ NoStyles
    /\ NoBridge
    /\ NoGrid
    /\ NoPixel
    /\ NoGeoms

CallGetTile ==
    /\ fetched # None
    /\ got = None
    /\ got' = Some(get_tile(fetched.tile_size, fetched.answer))
    /\ UNCHANGED <<fetched, builderVars, snapshotVars, zoomVars, styleVars,
                   asyncVars, gridVars, pixelVars, geomVars>>

NextSize == CallGetTile

SpecSize == InitSize /\ [][NextSize]_vars

(***************************************************************************)
(* Properties                                                              *)
(***************************************************************************)

Abs(v) == IF v < 0 THEN -v ELSE v

Done == pc = "done"

\* The answers of the tile source to the fetches of single tiles.
TileAnswers == {calls[i].outcome : i \in {j \in DOMAIN calls :
                                             calls[j].shape = "Individual"}}

\* Every tile a tile source returned, whatever its shape.
ReturnedTiles ==
    {o.tile : o \in {a \in TileAnswers : a.ok}}
    \cup UNION {{calls[i].outcome.tiles[k].tile :
                    k \in DOMAIN calls[i].outcome.tiles} :
                i \in {j \in DOMAIN calls : /\ calls[j].shape = "Batch"
                                            /\ calls[j].outcome.ok}}

\* C1: with an individual tile fetcher, once fetch_tile has returned an error
\* for a required tile, the snapshot call returns an error and no image, with
\* the worker pool and without it: it never returns Ok.
C1_FetchErrorIsReturned ==
    (Done /\ \E a \in TileAnswers : ~a.ok) => ~result.ok

\* C2: no tile of a size other than tile_size is pasted into the base
\* mosaic, and once a tile source has returned such a tile the snapshot call
\* returns IncorrectTileSize and no raster.
C2_WrongTileSizeIsFatal ==
    /\ \A i \in DOMAIN image :
           image[i].tile = Tile(snapr.tile_size, snapr.tile_size)
    /\ (Done /\ \E t \in ReturnedTiles :
                    t # Tile(snapr.tile_size, snapr.tile_size))
           => (~result.ok /\ result.error = "IncorrectTileSize")

InRange(v, level) == 0 <= v /\ v < Pow2(level)

\* C3: every tile coordinate handed to a tile source, by fetch_tile or in
\* the matrix of fetch_tiles, satisfies 0 <= x < 2^zoom and 0 <= y < 2^zoom.
C3_FetchedCoordinatesInRange ==
    \A i \in DOMAIN calls :
        IF calls[i].shape = "Individual"
        THEN InRange(calls[i].x, calls[i].zoom)
             /\ InRange(calls[i].y, calls[i].zoom)
        ELSE \A k \in DOMAIN calls[i].coordinate_matrix :
                 /\ InRange(calls[i].coordinate_matrix[k][1], calls[i].zoom)
                 /\ InRange(calls[i].coordinate_matrix[k][2], calls[i].zoom)

\* Whether offset is the pixel offset, cut to an integer, of the tile of grid
\* index v: less than one pixel from (v - c) * tile_size + dimension / 2.
OffsetOfIndex(offset, v, c, dimension) ==
    Abs(2 * WorldDen * offset
        - (2 * snapr.tile_size * (WorldDen * v - c) + WorldDen * dimension))
        < 2 * WorldDen

PastedCells(r) == {r.image.tiles[i].grid : i \in DOMAIN r.image.tiles}

\* C5: a snapshot call ends either in Ok with an image of width x height
\* pixels, and then no phase has failed and no tile of the grid is missing
\* from the image, or in an error without an image.
C5_OkImageOrError ==
    Done =>
        IF result.ok
        THEN /\ result.image.width = snapr.width
             /\ result.image.height = snapr.height
             /\ \A i \in DOMAIN calls : calls[i].outcome.ok
             /\ \A k \in DOMAIN matrix : matrix[k] \in PastedCells(result)
             /\ Len(drawn) = Len(drawables)
        ELSE DOMAIN result = {"ok", "error"}

\* The index of the last drawable, among the first n, that writes the cell,
\* and -1 when none does.
TopOf(cell, n) ==
    LET writers == {i \in 0..(n - 1) : cell \in drawables[i + 1].cells}
    IN  IF writers = {} THEN -1 ELSE Max(writers)

\* C6: the drawables are drawn one at a time in the order given: the k-th
\* completed draw is that of drawable k with context index k, a draw starts
\* only when all the draws before it have completed, and each cell of the
\* overlay shows the last drawn of the drawables that write it.
C6_DrawnInOrder ==
    /\ Len(drawn) <= Len(drawables)
    /\ \A j \in DOMAIN drawn :
           /\ drawn[j].index = j - 1
           /\ drawn[j].drawable = drawables[j]
    /\ drawing # -1 => drawing = Len(drawn)
    /\ \A cell \in Cells : pixmap[cell] = TopOf(cell, Len(drawn))

\* C6 witness: two drawables that write a common cell have both been drawn
\* and the image returned.
C6_Witness ==
    /\ Done
    /\ result.ok
    /\ Len(drawn) = 2
    /\ drawables[1] # drawables[2]
    /\ \E cell \in Cells :
           /\ cell \in drawables[1].cells \cap drawables[2].cells
           /\ result.image.overlay[cell] = 1

\* Whether the projected bounding box, at the level, is at most width pixels
\* wide and at most height pixels high.
Fits(level, bounding_box, tile_size, width, height) ==
    LET a == epsg_4326_to_epsg_3857(level, bounding_box.min)
        b == epsg_4326_to_epsg_3857(level, bounding_box.max)
    IN  /\ Abs(b.x - a.x) <= (width * WorldDen) \div tile_size
        /\ Abs(b.y - a.y) <= (height * WorldDen) \div tile_size

\* The highest level of 0..max_zoom at which the bounding box fits, and 1
\* when it fits at none.
HighestFit(bounding_box, max_zoom, tile_size, width, height) ==
    LET fitting == {level \in 0..max_zoom :
                       Fits(level, bounding_box, tile_size, width, height)}
    IN  IF fitting = {} THEN 1 ELSE Max(fitting)

ZoomCalled == zout # -1

\* C7: zoom_from_geometries returns the highest level of 0..max_zoom at which
\* the projected bounding box is at most width pixels wide and at most
\* height pixels high, and 1 when there is no such level.
C7_HighestLevelThatFits ==
    ZoomCalled =>
        zout = HighestFit(zin.bounding_box, zin.max_zoom, zin.tile_size,
                          zin.width, zin.height)

\* C8: for the same bounding box, tile size and maximum level, a viewport no
\* wider and no higher gets a zoom level no higher.
C8_MonotonicInViewport ==
    ZoomCalled =>
        \A width \in ZoomWidths, height \in ZoomHeights :
            (width <= zin.width /\ height <= zin.height) =>
                zoom_from_geometries(zin.bounding_box, zin.max_zoom,
                                     zin.tile_size, width, height) <= zout

\* C9: the level selected under Zoom::Automatic(max_level) is at most
\* max_level.
C9_AtMostMaxLevel == ZoomCalled => zout <= zin.max_zoom

\* C10: build returns Error::Builder, and no Snapr, exactly when no tile
\* fetcher was set, whichever of tile_size, height, width and zoom were set;
\* otherwise it returns a Snapr around the tile fetcher that was set.
C10_BuildFailsIffNoFetcher ==
    built # None =>
        /\ (built = BuilderError) <=> ~builder.tile_fetcher.some
        /\ built.ok <=> builder.tile_fetcher.some
        /\ built.ok =>
               built.snapr.tile_fetcher
                   = InstalledFetcher(builder.kind, builder.tile_fetcher.value)

\* C10 witness: build has returned a Snapr from a builder whose tile fetcher
\* was set and whose tile_size, height, width and zoom were not.
C10_Witness ==
    /\ built # None
    /\ built.ok
    /\ builder.tile_fetcher.some
    /\ ~builder.tile_size.some
    /\ ~builder.height.some
    /\ ~builder.width.some
    /\ ~builder.zoom.some

\* The styles that the first n of the styles handed in yield, in order.
RECURSIVE YieldedOf(_)
YieldedOf(n) ==
    IF n = 0 THEN <<>>
    ELSE LET yielded == Yielded(styles[n], target)
         IN  IF yielded.some
             THEN Append(YieldedOf(n - 1), yielded.value)
             ELSE YieldedOf(n - 1)

\* Whether m is b with each optional field, when b has none, taken from a.
RightBiased(a, b, m) ==
    /\ m.kind = b.kind
    /\ m.color_options.foreground = b.color_options.foreground
    /\ m.color_options.background = b.color_options.background
    /\ m.color_options.anti_alias = b.color_options.anti_alias
    /\ m.color_options.border
           = (IF b.color_options.border.some
              THEN b.color_options.border ELSE a.color_options.border)
    /\ b.kind = "Point" =>
           /\ m.representation = b.representation
           /\ m.label = (IF b.label.some THEN b.label ELSE a.label)
    /\ b.kind = "Line" => m.width = b.width

\* C11: when reduce merges a style b into an accumulator a, every scalar
\* field of the result (foreground, background, anti_alias, width,
\* representation) is b's, and border and label are b's when b has one and
\* a's when it has not.
C11_MergeIsRightBiased ==
    [][(acc.some /\ acc' # acc)
           => RightBiased(acc.value,
                          Yielded(styles[taken + 1], target).value,
                          acc'.value)]_vars

\* C11 witness: a style with a border of 2 has been merged into one with a
\* border of 4, and a third without a border into the result, which keeps 2.
C11_Witness ==
    /\ taken = 3
    /\ Len(YieldedOf(3)) = 3
    /\ YieldedOf(3)[1].color_options.border = Some(4)
    /\ YieldedOf(3)[2].color_options.border = Some(2)
    /\ YieldedOf(3)[3].color_options.border = None
    /\ acc.value.color_options.border = Some(2)

\* The styles of the sequence merged from the right: a with (b with ...).
RECURSIVE MergedFromRight(_)
MergedFromRight(seq) ==
    IF Len(seq) = 1 THEN seq[1]
    ELSE MergeStyles(seq[1], MergedFromRight(Tail(seq)))

\* C12: merging is associative: for three styles a, b, c of a kind, merging
\* a with b and then c gives the same as merging a with the merge of b and c,
\* and the left-to-right reduce of a list gives the same as grouping it from
\* the right.
C12_MergeIsAssociative ==
    LET seq == YieldedOf(taken)
    IN  /\ Len(seq) >= 1 => acc = Some(MergedFromRight(seq))
        /\ Len(seq) = 3 =>
               MergeStyles(MergeStyles(seq[1], seq[2]), seq[3])
                   = MergeStyles(seq[1], MergeStyles(seq[2], seq[3]))

\* C12 witness: three styles of a kind have been reduced, the first with a
\* border, the second without one and the third with another.
C12_Witness ==
    /\ taken = 3
    /\ Len(YieldedOf(3)) = 3
    /\ YieldedOf(3)[1].color_options.border = Some(4)
    /\ YieldedOf(3)[2].color_options.border = None
    /\ YieldedOf(3)[3].color_options.border = Some(2)
    /\ acc.some

\* A task of the batch fetch has panicked, or the bridging thread has.
AnyPanic ==
    \/ bridge = "panicked"
    \/ \E k \in DOMAIN tasks :
           tasks[k].outcome.some /\ tasks[k].outcome.value.kind = "panic"

JoinedWith(kind) ==
    {k \in DOMAIN tasks : /\ tasks[k].state = "joined"
                          /\ tasks[k].outcome.value.kind = kind}

\* C13 as stated: once a task of an asynchronous individual fetch, or the
\* bridging thread, has panicked, the snapshot call returns
\* Error::AsynchronousTaskPanic.
C13_PanicIsAsynchronousTaskPanic ==
    (Done /\ AnyPanic) =>
        (~result.ok /\ result.error = "AsynchronousTaskPanic")

\* C13, amended: once a task or the bridging thread has panicked, the batch
\* fetch has not returned Ok and the snapshot call, when spawned.join() has
\* returned, has failed: with AsynchronousTaskPanic when the thread panicked
\* or the panicked task was joined, and otherwise with the error of a failed
\* task joined before it.
C13_PanicFailsTheSnapshot ==
    AnyPanic =>
        /\ batch # None => ~batch.ok
        /\ pc # "bridged" =>
               /\ Done
               /\ ~result.ok
               /\ (bridge = "panicked" \/ JoinedWith("panic") # {})
                      => result.error = "AsynchronousTaskPanic"
               /\ result.error # "AsynchronousTaskPanic" =>
                      \E k \in JoinedWith("err") :
                          result.error = tasks[k].outcome.value.error

\* C13 witness: a task was joined with its tile, another with its panic, and
\* the snapshot call has returned AsynchronousTaskPanic.
C13_Witness ==
    /\ Done
    /\ JoinedWith("ok") # {}
    /\ JoinedWith("panic") # {}
    /\ result = Err("AsynchronousTaskPanic")

\* C14: when every task of an asynchronous individual fetch succeeds, the
\* batch returned holds exactly one entry for each coordinate of the matrix,
\* with the tile the task of that coordinate fetched, whatever the order the
\* tasks completed in.
C14_OneEntryPerCoordinate ==
    /\ (AsyncIndividual /\ batch # None /\ batch.ok) =>
           /\ Len(batch.tiles) = Len(matrix)
           /\ \A k \in DOMAIN matrix :
                  /\ Cardinality({i \in DOMAIN batch.tiles :
                                     <<batch.tiles[i].x, batch.tiles[i].y>>
                                         = matrix[k]}) = 1
                  /\ \A i \in DOMAIN batch.tiles :
                         <<batch.tiles[i].x, batch.tiles[i].y>> = matrix[k]
                             => batch.tiles[i].tile
                                    = tasks[k].outcome.value.tile
           /\ \A i \in DOMAIN batch.tiles :
                  batch.tiles[i].tile.fetched_for
                      = <<batch.tiles[i].x, batch.tiles[i].y>>
    /\ (/\ AsyncIndividual
        /\ bridge = "returned"
        /\ \A k \in DOMAIN tasks :
               /\ tasks[k].outcome.some
               /\ tasks[k].outcome.value.kind = "ok")
           => (batch # None /\ batch.ok)

\* C14 witness: the batch of four tasks has been returned, the tasks having
\* completed in another order than they were spawned in.
C14_Witness ==
    /\ AsyncIndividual
    /\ batch # None
    /\ batch.ok
    /\ Len(batch.tiles) = 4
    /\ <<batch.tiles[1].x, batch.tiles[1].y>> # matrix[1]
    /\ <<batch.tiles[4].x, batch.tiles[4].y>> # matrix[4]

\* On the calling thread nothing has been pasted or drawn yet.
NothingPasted ==
    /\ image = <<>>
    /\ collected = <<>>
    /\ drawn = <<>>
    /\ drawing = -1

\* The calling thread is not pasting or drawing before the bridging thread
\* has terminated, and pastes only from the whole batch it returned.
CallerWaits ==
    /\ pc \in {"tiles", "bridged"} => NothingPasted
    /\ (bridge # "none" /\ pc # "bridged") =>
           /\ bridge \in {"returned", "panicked"}
           /\ \A k \in DOMAIN tasks : tasks[k].state # "running"
    /\ (bridge # "none" /\ pc \in {"paste", "draw"}) =>
           /\ batch # None
           /\ batch.ok
           /\ Len(image) + Len(collected) = Len(batch.tiles)

\* C15 as stated: all the asynchronous work runs on the bridging thread, and
\* the calling thread pastes and draws only after that thread has terminated.
C15_OnlyOnTheBridgingThread ==
    /\ \A w \in ran : w.thread = BridgingThread
    /\ CallerWaits

\* C15, amended: none of the asynchronous work runs on the calling thread:
\* the future of block_on, with the asynchronous fetch_tiles, runs on the
\* bridging thread, and the tasks of an individual source on the runtime;
\* the calling thread pastes and draws only after the bridging thread has
\* terminated and returned the whole batch.
C15_NeverOnTheCallingThread ==
    /\ \A w \in ran :
           /\ w.thread # CallingThread
           /\ w.work \in {"block_on", "fetch_tiles"}
                  => w.thread = BridgingThread
    /\ CallerWaits

\* C15 witness: the tasks of an individual source have run, the bridging
\* thread has returned their batch and the calling thread is pasting it.
C15_Witness ==
    /\ AsyncIndividual
    /\ pc = "paste"
    /\ image # <<>>
    /\ bridge = "returned"
    /\ Work("fetch_tile", TaskThread) \in ran

\* overlay: the tile covers the pixels from its offset to its offset plus
\* its size, on each axis.
Covers(t, px, py) ==
    /\ t.x <= px /\ px < t.x + t.tile.width
    /\ t.y <= py /\ py < t.y + t.tile.height

\* The tile seen at a pixel after the tiles are pasted in the order of the
\* sequence: the last pasted of those that cover it.
TopAt(pasted, px, py) ==
    LET covering == {i \in DOMAIN pasted : Covers(pasted[i], px, py)}
    IN  IF covering = {} THEN {} ELSE {pasted[Max(covering)]}

\* The base mosaic of a canvas: what is seen at one pixel of each rectangle
\* the edges of the tiles cut the canvas into.
Mosaic(pasted, width, height) ==
    LET xs == {0} \cup {v \in {pasted[i].x : i \in DOMAIN pasted}
                              \cup {pasted[i].x + pasted[i].tile.width :
                                       i \in DOMAIN pasted} :
                           0 <= v /\ v < width}
        ys == {0} \cup {v \in {pasted[i].y : i \in DOMAIN pasted}
                              \cup {pasted[i].y + pasted[i].tile.height :
                                       i \in DOMAIN pasted} :
                           0 <= v /\ v < height}
    IN  [p \in xs \X ys |-> TopAt(pasted, p[1], p[2])]

\* The answer the tile source gave for the grid cell.
AnswerFor(cell) ==
    calls[CHOOSE i \in DOMAIN calls : calls[i].grid = cell].outcome

\* What the sequential execution does with the same answers: the tiles
\* pasted in the order of the matrix.
SequentialImage ==
    [k \in DOMAIN matrix |-> Placed(matrix[k], AnswerFor(matrix[k]).tile)]

\* C16: when the parallel execution of the individual fetch has returned,
\* the sequential execution with the same answers of the tile fetcher has
\* the same outcome: the same base mosaic, and no error, the parallel
\* execution having returned none.
C16_ParallelAsSequential ==
    (rayon /\ Individual /\ pc = "draw") =>
        /\ \A k \in DOMAIN matrix : AnswerFor(matrix[k]).ok
        /\ Mosaic(image, snapr.width, snapr.height)
               = Mosaic(SequentialImage, snapr.width, snapr.height)

Reversed(seq) == [i \in DOMAIN seq |-> seq[Len(seq) + 1 - i]]

\* C17: the paste offsets of any two distinct tiles of a grid differ by at
\* least tile_size on some axis, and the base mosaic is the same whether the
\* tiles are pasted in the order of the matrix or in the opposite order.
C17_TilesAreDisjoint ==
    gout # <<>> =>
        /\ \A i, j \in DOMAIN gout :
               i # j => \/ Abs(gout[i].x - gout[j].x) >= gin.tile_size
                        \/ Abs(gout[i].y - gout[j].y) >= gin.tile_size
        /\ Mosaic(gout, gin.width, gin.height)
               = Mosaic(Reversed(gout), gin.width, gin.height)

\* C19: the pixel of a point projected with itself as the center is the
\* center of the canvas, (round(width / 2), round(height / 2)).
C19_SelfProjectionIsCanvasCenter ==
    (pout # None /\ pin.center = pin.point) =>
        pout.value = [x |-> RoundHalfAway(pin.snapper.width, 2),
                      y |-> RoundHalfAway(pin.snapper.height, 2)]

\* The operations on the overlay among the events of a draw.
IsOverlayOp(e) == e.op \in {"fill_path", "stroke_path", "render"}

OverlayOps(events) == SelectSeq(events, IsOverlayOp)

\* C18: once both have returned, the geometries drawn as separate
\* drawables and drawn as one collection of them have made the same drawing
\* operations on the overlay, in the same order, and returned the same.
C18_CollectionDrawsAsItsGeometries ==
    (apart # None /\ wrapped # None
         /\ apart.result # None /\ wrapped.result # None) =>
        /\ OverlayOps(OpsOf(apart.log)) = OverlayOps(OpsOf(wrapped.log))
        /\ apart.result = wrapped.result

C18_Witness ==
    /\ apart # None /\ wrapped # None
    /\ Len(geoms) = MaxGeoms
    /\ geoms[1] # geoms[2]
    /\ apart.result = Some(Ok("drawn"))
    /\ wrapped.result = Some(Ok("drawn"))
    /\ Len(apart.log) = MaxGeoms
    /\ OpsOf(wrapped.log) # <<>>

\* No points, a single point, or all points coinciding.
Degenerate(g) ==
    /\ g.kind \in {"Line", "LineString"}
    /\ \A i \in DOMAIN g.points : g.points[i] = g.points[1]

\* C20: a Line or LineString whose vertices form no path, once drawn, has
\* returned PathConstruction without any drawing operation, its vertex
\* markers included, and the loop has returned that error.
C20_DegenerateLineIsPathConstruction ==
    apart # None =>
        \A i \in DOMAIN apart.log :
            Degenerate(geoms[i]) =>
                /\ apart.log[i] = Failed(<<>>, "PathConstruction")
                /\ apart.result = Some(Err("PathConstruction"))

\* No drawable of the call yields a geometry.
NoGeometry == Geometries(drawables) = {}

\* Neither the tile source nor a draw has been called.
NothingCalled == calls = <<>> /\ drawn = <<>> /\ drawing = -1

DrawCalled == drawing # -1 \/ drawn # <<>>

FetchedCells ==
    {calls[i].grid : i \in {j \in DOMAIN calls :
                               calls[j].shape = "Individual"}}
    \cup UNION {{calls[i].coordinate_matrix[k] :
                    k \in DOMAIN calls[i].coordinate_matrix} :
                i \in {j \in DOMAIN calls : calls[j].shape = "Batch"}}

\* Every cell of the grid has been fetched and its tile pasted before the
\* first draw is called.
TilesBeforeDraws ==
    DrawCalled =>
        \A k \in DOMAIN matrix :
            /\ matrix[k] \in FetchedCells
            /\ \E i \in DOMAIN image : image[i].grid = matrix[k]

\* No tile is pasted while a cell of the grid is still to be fetched.
PastesAfterFetches == image # <<>> => (pending = {} /\ calls # <<>>)

\* The image is returned only after the last draw has returned.
MergeAfterDraws ==
    (Done /\ result.ok) => (drawing = -1 /\ Len(drawn) = Len(drawables))

\* C22: the phases of a snapshot call are ordered: every tile of the grid is
\* fetched and pasted before the first draw is called, the tiles are pasted
\* only after all the fetches have returned, and the overlay is merged only
\* after the last draw has returned.
C22_PhasesAreOrdered ==
    /\ TilesBeforeDraws
    /\ PastesAfterFetches
    /\ MergeAfterDraws

\* C23: once the draw of the drawable at index i has returned an error, it
\* is the last drawable drawn, and what the loop returns, if it has
\* returned, is that error; it has returned nothing else before.
C23_DrawErrorEndsTheLoop ==
    apart # None =>
        \A i \in DOMAIN apart.log :
            ~apart.log[i].ok =>
                /\ Len(apart.log) = i
                /\ apart.result = Some(Err(apart.log[i].error))

C23_Witness ==
    /\ apart # None
    /\ Len(geoms) = MaxGeoms
    /\ Len(apart.log) = 1
    /\ ~apart.log[1].ok
    /\ apart.result = Some(Err("PathConstruction"))

\* The calls of the tile source made for the grid cell.
CallsFor(cell) ==
    {i \in DOMAIN calls : calls[i].shape = "Individual"
                              /\ calls[i].grid = cell}

\* overlay_backing_tiles has returned Ok.
TilesDone == pc \in {"paste", "draw"} \/ (Done /\ result.ok)

\* C24: within a snapshot call an individual fetcher is called at most once
\* for each cell of the grid, and once for each when the tiles are done; a
\* batch fetcher is called at most once, with the whole matrix, and once when
\* the tiles are done; without the worker pool no call follows a failed one.
C24_EachCellFetchedOnce ==
    /\ Individual =>
           /\ \A i \in DOMAIN calls :
                  /\ calls[i].shape = "Individual"
                  /\ \E k \in DOMAIN matrix : matrix[k] = calls[i].grid
           /\ \A k \in DOMAIN matrix :
                  /\ Cardinality(CallsFor(matrix[k])) <= 1
                  /\ TilesDone => Cardinality(CallsFor(matrix[k])) = 1
           /\ ~rayon => \A i \in DOMAIN calls :
                            ~calls[i].outcome.ok => i = Len(calls)
    /\ Batch =>
           /\ Len(calls) <= 1
           /\ \A i \in DOMAIN calls :
                  /\ calls[i].shape = "Batch"
                  /\ calls[i].coordinate_matrix = matrix
           /\ TilesDone => Len(calls) = 1

\* C24 witness: the four cells of a grid, which all wrap to the one tile of
\* zoom 0, have each been fetched once by an individual fetcher and the
\* image returned.
C24_Witness ==
    /\ Done
    /\ result.ok
    /\ Individual
    /\ Len(matrix) = 4
    /\ zoom = 0
    /\ Len(calls) = 4

PlacedAxis(d, dimension, tile_size) ==
    RoundHalfAway(2 * tile_size * d + WorldDen * dimension, 2 * WorldDen)

\* The point of the call as tile placement has it, when its projection is
\* finite.
PlacedPixel ==
    LET p == SnapperProject(pin.zoom, pin.point)
        q == SnapperProject(pin.zoom, pin.center)
    IN  [x |-> PlacedAxis(FloatSub(p.x, q.x).value, pin.snapper.width,
                          pin.snapper.tile_size),
         y |-> PlacedAxis(FloatSub(p.y, q.y).value, pin.snapper.height,
                          pin.snapper.tile_size)]

InViewport(pixel, snapper) ==
    /\ 0 <= pixel.x /\ pixel.x < snapper.width
    /\ 0 <= pixel.y /\ pixel.y < snapper.height

\* C26: for a point in the viewport, however many tiles from the center, the
\* pixel epsg_4326_to_pixel computes is the one tile placement puts it at,
\* d * tile_size + dimension / 2 rounded, on each axis.
C26_PixelAgreesWithTilePlacement ==
    (/\ pout # None
     /\ pin.point.x # SouthPole
     /\ pin.center.x # SouthPole
     /\ InViewport(PlacedPixel, pin.snapper)) =>
        pout.value = PlacedPixel

\* The context the loop over the separate drawables hands to the draw at
\* position i.
ApartContext(i) ==
    Context([j \in DOMAIN geoms |-> AsGeometry(geoms[j])], i - 1)

IsNoApply(e) == e.op # "apply"

IsPointEvent(e) == e.op = "point"

IsPathStroke(e) == e.op = "stroke_path" /\ "points" \in DOMAIN e.path

\* C27: a LineString with a path and a border, once drawn, has made first
\* the background stroke of the border's width, then the foreground stroke
\* of the style's width along the same path, and no other stroke of a path,
\* then one draw of a point for each vertex, in the order of the vertices,
\* with the position of the vertex as the index of the context. With the
\* default style the strokes are 4 and 3 wide.
C27_LineStringDrawOrder ==
    apart # None =>
        \A i \in DOMAIN apart.log :
            LET g == geoms[i]
                style == Resolve(g, ApartContext(i)).style
                ops == SelectSeq(apart.log[i].ops, IsNoApply)
            IN  (/\ g.kind = "LineString"
                 /\ Finish(g.points, FALSE, lenient).some
                 /\ style.color_options.border.some) =>
                    /\ Len(ops) >= 3
                    /\ IsPathStroke(ops[1])
                    /\ ops[1].color = style.color_options.background
                    /\ ops[1].width = style.color_options.border.value
                    /\ IsPathStroke(ops[2])
                    /\ ops[2].color = style.color_options.foreground
                    /\ ops[2].width = style.width
                    /\ ops[2].path = ops[1].path
                    /\ ops[1].path.points = g.points
                    /\ Len(SelectSeq(ops, IsPathStroke)) = 2
                    /\ ops[3].op = "point"
                    /\ SelectSeq(ops, IsPointEvent)
                           = [k \in DOMAIN g.points |->
                                 [op |-> "point", at |-> g.points[k],
                                  index |-> k - 1]]
                    /\ ~IsStyled(g) => (ops[1].width = 4 /\ ops[2].width = 3)

\* C27 witness: a LineString of three vertices with the default style has
\* been drawn as the second drawable of the call.
C27_Witness ==
    /\ apart # None
    /\ Len(apart.log) = 2
    /\ geoms[2] = LineString(<<1, 2, 1>>)
    /\ apart.log[2].ok
    /\ Len(SelectSeq(apart.log[2].ops, IsPointEvent)) = 3

IsApply(e) == e.op = "apply"

IsOnCircle(e) == e.op \in {"fill_path", "stroke_path"} /\ "circle" \in DOMAIN e.path

\* The colour and width of the strokes a line style allows along a path.
StrokesAllowedBy(style) ==
    {<<style.color_options.foreground, style.width>>}
        \cup (IF style.color_options.border.some
                  THEN {<<style.color_options.background,
                          style.color_options.border.value>>}
                  ELSE {})

\* C28: a Line, LineString or Polygon whose style carries an effect, once
\* drawn, has applied the effect once, to the static style and with the
\* context of the draw, before anything else; every stroke and fill of its
\* path has the colours and widths of the style the effect returned, and
\* every vertex is drawn as the point style of that returned style says.
C28_EffectAppliedOnce ==
    apart # None =>
        \A i \in DOMAIN apart.log :
            LET g == geoms[i]
                static == StyleOf(g)
                context == ApartContext(i)
                ops == apart.log[i].ops
            IN  (g.kind \in {"Line", "LineString", "Polygon"}
                     /\ static.effect.some) =>
                  LET returned == ApplyEffect(static.effect.value, static, g,
                                              context)
                      line_style == IF g.kind = "Polygon"
                                        THEN returned.line_style
                                        ELSE returned
                      vertices == returned.point_style
                  IN  /\ Len(SelectSeq(ops, IsApply)) = 1
                      /\ ops[1] = Applied(static.effect.value, static, g,
                                          context)
                      /\ \A k \in DOMAIN ops :
                             /\ IsPathStroke(ops[k]) =>
                                    <<ops[k].color, ops[k].width>>
                                        \in StrokesAllowedBy(line_style)
                             /\ (ops[k].op = "fill_path"
                                     /\ ~IsOnCircle(ops[k])) =>
                                    ops[k].color
                                        = returned.color_options.foreground
                             /\ (ops[k].op = "fill_path"
                                     /\ IsOnCircle(ops[k])) =>
                                    /\ ops[k].color
                                           = vertices.color_options.foreground
                                    /\ ops[k].path.shape
                                           = vertices.representation
                             /\ (ops[k].op = "stroke_path"
                                     /\ IsOnCircle(ops[k])) =>
                                    /\ vertices.color_options.border.some
                                    /\ ops[k].width
                                           = vertices.color_options.border.value
                                    /\ ops[k].color
                                           = vertices.color_options.background
                             /\ ops[k].op = "render" =>
                                    vertices.label = Some(ops[k].svg)
                      /\ Len(SelectSeq(ops, IsPointEvent)) = Len(g.points)

\* C28 witness: a LineString whose effect widens the strokes and takes the
\* border off the vertices has been drawn as the second drawable: its
\* foreground stroke is 7 wide and no vertex has a border.
C28_Witness ==
    /\ apart # None
    /\ Len(apart.log) = 2
    /\ IsStyled(geoms[2])
    /\ geoms[2].kind = "LineString"
    /\ geoms[2].style.effect = Some("widen")
    /\ geoms[2].style.color_options.border.some
    /\ apart.log[2].ok
    /\ \E k \in DOMAIN apart.log[2].ops :
           IsPathStroke(apart.log[2].ops[k]) /\ apart.log[2].ops[k].width = 7
    /\ \A k \in DOMAIN apart.log[2].ops :
           ~(apart.log[2].ops[k].op = "stroke_path"
                 /\ IsOnCircle(apart.log[2].ops[k]))

\* The marker of a point: its shape filled, or its SVG rendered.
IsMarker(e, style) ==
    IF style.representation = "Svg"
    THEN e.op = "render" /\ e.svg = "Svg"
    ELSE e.op = "fill_path" /\ IsOnCircle(e)

\* C29: a point whose style has a label, once drawn, has had its marker
\* drawn and after it its label rendered, whether the marker is a shape or
\* an SVG.
C29_LabelRenderedAfterMarker ==
    apart # None =>
        \A i \in DOMAIN apart.log :
            LET g == geoms[i]
                style == StyleOf(g)
                ops == apart.log[i].ops
            IN  (g.kind = "Point" /\ style.label.some) =>
                    \E j, k \in DOMAIN ops :
                        /\ j < k
                        /\ IsMarker(ops[j], style)
                        /\ ops[k].op = "render"
                        /\ ops[k].svg = style.label.value

\* get_tile has returned IncorrectTileSize.
SizeRejected ==
    /\ got # None
    /\ ~got.value.ok
    /\ got.value.error.name = "IncorrectTileSize"

\* C30: when get_tile returns IncorrectTileSize, received is the dimension
\* of the fetched tile that differs from tile_size: the height when the
\* height differs, the width when only the width does; so it is not the
\* expected size.
C30_ReceivedIsTheMismatch ==
    SizeRejected =>
        LET tile == fetched.answer.tile
            e == got.value.error
        IN  /\ e.expected = fetched.tile_size
            /\ e.received # e.expected
            /\ e.received = IF tile.height # fetched.tile_size
                                THEN tile.height
                                ELSE tile.width

====
